---- MODULE Spec2Model ----
(***************************************************************************)
(* Real-Alpha-Trader: the strategy trigger engine (StrategyManager,        *)
(* StrategyState), the scheduled auto-trading job, and the decision        *)
(* pipeline place_ai_driven_crypto_order with the broker order submission, *)
(* the rate limiter and balance cache of binance_sync, and the asset       *)
(* snapshot handler with its retention sweep.                              *)
(*                                                                         *)
(* Time is counted in units of 1/TimeUnitsPerSecond seconds; every         *)
(* timestamp of the program (time.time(), event_time, last_trigger_at) is  *)
(* a number of such units.                                                 *)
(***************************************************************************)
EXTENDS Integers, Sequences, FiniteSets, Bags, TLC

\* ------------------------------------------------------------------ bounds
NumAccounts == 1
\* price events the market stream publishes
MaxEvents == 2
\* requests the API serves
MaxApiCalls == 2
\* resolution of the clock
TimeUnitsPerSecond == 2
\* clock ticks observed after the start and after each refresh interval
ClockSlack == 1
\* threads that call the broker adapter and the calls they make in all
NumBrokerThreads == 2
MaxBrokerCalls == 3
\* price events handed to the asset snapshot handler
MaxSnapshotRuns == 4
\* MarketDataStream objects created, symbols they poll, events they issue, and
\* calls of subscribe, unsubscribe, start_market_stream and stop_market_stream
\* made while the services run
MaxStreams == 2
NumSymbols == 2
MaxStreamEvents == 2
MaxLifecycleCalls == 2
\* operations on the price cache and the prices recorded
MaxCacheOps == 4
PriceValues == {1, 2}
\* accounts and sockets of the connection manager, and the calls made on it
NumWsAccounts == 2
NumWebSockets == 2
MaxWsCalls == 5
\* endpoints build_chat_completion_endpoints returns, and calls of the oracle
NumEndpoints == 2
MaxOracleCalls == 2

\* None of an Optional[datetime]
NoTime == -1
\* None of an Optional[int] (should_trigger treats None and 0 alike: "not x")
NoInt == 0

\* --------------------------------------------------------- program constants
MIN_REALTIME_INTERVAL == 1 * TimeUnitsPerSecond
STRATEGY_REFRESH_INTERVAL == 60 * TimeUnitsPerSecond

MaxTime == STRATEGY_REFRESH_INTERVAL + ClockSlack

\* the instants at which the clock is observed: a few ticks after the start and a
\* few ticks after a whole refresh interval has passed
ClockSteps(t) ==
    {0} \cup {d \in {1} : t % STRATEGY_REFRESH_INTERVAL < ClockSlack}
        \cup {d \in {STRATEGY_REFRESH_INTERVAL} : t + d <= MaxTime}

TriggerModes == {"realtime", "interval", "tick_batch"}
\* interval_seconds / tick_batch_size a client submits with a strategy update
IntervalChoices == {2}
BatchChoices == {2}

VARIABLES
    now,            \* time.time() / datetime.now(): one clock
    accounts,       \* table accounts: account id -> [status, auto_trading_enabled]
    configs,        \* table account_strategy_configs: account id -> row
    objs,           \* heap of StrategyState objects (a sequence, index = identity)
    states,         \* StrategyManager._states: account id -> object index (0: absent)
    last_refresh,   \* StrategyManager._last_refresh
    subscribed,     \* handle_price_update is subscribed to the dispatcher
    hp,             \* the market-stream thread inside handle_price_update
    api,            \* the API thread inside a forced refresh_strategies
    runners,        \* the strategy-trigger threads (a bag of runner closures)
    jobScheduled,   \* scheduler holds the job AI_TRADE_JOB_ID
    job,            \* the scheduler thread inside place_ai_driven_crypto_order
    trig,           \* history: the last decision-task start of each account (the n-th,
                    \* with seq events published by then)
    published,      \* history: number of price events published
    served,         \* history: number of API requests served
    px,             \* a thread inside the per-account body of place_ai_driven_crypto_order
    requests,       \* the order-submission requests sent to the exchange
    logs            \* table ai_decision_logs

VARIABLES
    last_call_time, \* binance_sync._global_binance_last_call_time
    cache,          \* binance_sync._balance_positions_cache: account id -> entry
    bthreads,       \* the threads inside a signed call of binance_sync
    releases,       \* history: the instants at which the rate limiter let a call go
    bseq,           \* history: number of signed calls and cache writes that returned
    bstarted,       \* history: number of broker calls started
    done_seq,       \* history: bseq when an order or cancellation of the account last
                    \* returned success
    err_seq,        \* history: bseq when a call for the account last returned an error
    snapshots,      \* table account_asset_snapshots: a set of rows
    snap            \* the market-stream thread inside asset_snapshot_service.handle_price_update

VARIABLES
    handlers,           \* MarketEventDispatcher._handlers
    sub_seq,            \* history: handler -> number of its subscription, 0 if none
    sthreads,           \* the "market-data-stream" threads, one per MarketDataStream
    market_data_stream, \* market_stream.market_data_stream: a stream, or 0 for None
    tally,              \* history: counts of events issued, publish calls, decision
                        \* tasks started, subscriptions and streams created
    seen,               \* history: handler -> the events it was invoked with
    life                \* the thread in initialize_services, shutdown_services or a
                        \* caller of the bus and stream functions

VARIABLES
    price_cache,        \* PriceCache.cache: key -> (price, timestamp)
    history,            \* PriceCache.history: key -> deque of (timestamp, price)
    recorded,           \* history: key -> everything record was called with
    cret                \* history: the last operation on the price cache and its result

VARIABLES
    active_connections, \* ConnectionManager.active_connections: account -> sockets
    connection_keys,    \* the accounts that are keys of active_connections
    snapshot_jobs,      \* the accounts with a job "snapshot_account_<id>" in the scheduler
    ws_calls            \* history: number of calls made on the connection manager

VARIABLES
    oracle              \* the thread inside the request loop of call_ai_for_decision,
                        \* with the requests it has made (history)

\* the event bus and the market stream
streamVars == <<handlers, sub_seq, sthreads, market_data_stream, tally, seen, life>>

\* the price cache
cacheVars == <<price_cache, history, recorded, cret>>

\* the subscription broadcaster
wsVars == <<active_connections, connection_keys, snapshot_jobs, ws_calls>>

\* the broker adapter
brokerVars == <<last_call_time, cache, bthreads, releases, bseq, bstarted, done_seq, err_seq>>

\* the asset snapshot service
snapshotVars == <<snapshots, snap>>

auxVars == <<brokerVars, snapshotVars, streamVars, cacheVars, wsVars, oracle>>

\* the trigger engine and the scheduler
engineVars == <<now, accounts, configs, objs, states, last_refresh, subscribed, hp, api,
                runners, jobScheduled, job, trig, published, served>>

\* the decision pipeline
pipeVars == <<px, requests, logs>>

vars == <<engineVars, pipeVars, auxVars>>

\* ------------------------------------------------------------------ helpers
\* the ids of the rows of table accounts, created or not yet
Accounts == DOMAIN accounts

NoConfig ==
    [exists |-> FALSE, trigger_mode |-> "realtime", interval_seconds |-> NoInt,
     tick_batch_size |-> NoInt, enabled |-> FALSE, last_trigger_at |-> NoTime]

\* SQLite CURRENT_TIMESTAMP (AIDecisionLog.decision_time) has whole seconds
SqliteTimestamp(t) == (t \div TimeUnitsPerSecond) * TimeUnitsPerSecond

\* _as_aware: a naive timestamp is taken as UTC, None stays None
AsAware(dt) == dt

IdleHp ==
    [pc |-> "idle", event_time |-> NoTime, snap |-> <<>>, i |-> 0, rd |-> 0,
     new_states |-> [a \in Accounts |-> 0], rnow |-> 0]

IdleApi == [pc |-> "idle", new_states |-> [a \in Accounts |-> 0], rnow |-> 0]

IdleJob == [pc |-> "idle", queue |-> <<>>]

IdlePx == [pc |-> "idle"]

NoTrig == [n |-> 0, seq |-> 0, at |-> NoTime, mode |-> "none", interval_seconds |-> NoInt]

\* Account.is_active == "true" and Account.account_type == "AI"
ActiveAccounts == {a \in Accounts : accounts[a].status = "active"}

\* get_active_ai_accounts: active AI accounts with auto trading on
TradingAccounts == {a \in ActiveAccounts : accounts[a].auto_trading_enabled}

\* a set of account ids as the list a query returns (by id)
RECURSIVE SetToSeq(_)
SetToSeq(S) ==
    IF S = {} THEN <<>>
    ELSE LET m == CHOOSE x \in S : \A y \in S : x <= y
         IN <<m>> \o SetToSeq(S \ {m})

\* ------------------------------------------------------------- repositories
\* upsert_strategy: every column of the row is overwritten, last_trigger_at kept
upsert_strategy(row, trigger_mode, interval_seconds, tick_batch_size, enabled) ==
    [row EXCEPT !.exists = TRUE, !.trigger_mode = trigger_mode,
                !.interval_seconds = interval_seconds,
                !.tick_batch_size = tick_batch_size, !.enabled = enabled]

\* set_last_trigger: no row, no effect
set_last_trigger(cfgs, a, when) ==
    IF cfgs[a].exists THEN [cfgs EXCEPT ![a].last_trigger_at = when] ELSE cfgs

\* ------------------------------------------------- refresh_strategies (body)
\* the config row refresh_strategies uses for an account: the stored one, or the
\* default it upserts when there is none
RefreshedConfig(cfgs, a) ==
    IF cfgs[a].exists THEN cfgs[a]
    ELSE upsert_strategy(cfgs[a], "realtime", 1, 1, accounts[a].auto_trading_enabled)

\* enabled = cfg.enabled == "true" and account.auto_trading_enabled == "true"
EffectiveEnabled(cfgs, a) ==
    RefreshedConfig(cfgs, a).enabled /\ accounts[a].auto_trading_enabled

\* accounts for which refresh_strategies finds no existing StrategyState
NewAccounts == {a \in ActiveAccounts : states[a] = 0}

\* index of the object refresh_strategies creates for a new account
NewIndex(a) == Len(objs) + Cardinality({b \in NewAccounts : b <= a})

\* the in-place update of an existing StrategyState from its config row
UpdatedState(s, cfg, enabled) ==
    [s EXCEPT !.trigger_mode = cfg.trigger_mode,
              !.interval_seconds = cfg.interval_seconds,
              !.tick_batch_size = cfg.tick_batch_size,
              !.enabled = enabled,
              !.last_trigger_at = AsAware(cfg.last_trigger_at)]

\* StrategyState(...) as refresh_strategies constructs it
NewState(a, cfg, enabled) ==
    [account_id |-> a, trigger_mode |-> cfg.trigger_mode,
     interval_seconds |-> cfg.interval_seconds,
     tick_batch_size |-> cfg.tick_batch_size, enabled |-> enabled,
     last_trigger_at |-> AsAware(cfg.last_trigger_at),
     tick_counter |-> 0, running |-> FALSE]

\* the heap after the loop of refresh_strategies over the active accounts
RefreshedObjs(cfgs) ==
    [k \in 1..(Len(objs) + Cardinality(NewAccounts)) |->
        IF k <= Len(objs)
        THEN IF \E a \in ActiveAccounts : states[a] = k
             THEN LET a == CHOOSE a \in ActiveAccounts : states[a] = k
                  IN UpdatedState(objs[k], RefreshedConfig(cfgs, a), EffectiveEnabled(cfgs, a))
             ELSE objs[k]
        ELSE LET a == CHOOSE a \in NewAccounts : NewIndex(a) = k
             IN NewState(a, RefreshedConfig(cfgs, a), EffectiveEnabled(cfgs, a))]

\* new_states as the loop builds it
RefreshedStates ==
    [a \in Accounts |->
        IF a \notin ActiveAccounts THEN 0
        ELSE IF states[a] # 0 THEN states[a] ELSE NewIndex(a)]

\* the rows after the loop (a default row upserted where none was stored)
RefreshedConfigs(cfgs) ==
    [a \in Accounts |-> IF a \in ActiveAccounts THEN RefreshedConfig(cfgs, a) ELSE cfgs[a]]

\* --------------------------------------------------------- StrategyState
should_trigger(s, event_time) ==
    IF ~s.enabled THEN FALSE
    ELSE IF s.trigger_mode = "realtime"
         THEN s.last_trigger_at = NoTime
              \/ event_time - s.last_trigger_at >= MIN_REALTIME_INTERVAL
    ELSE IF s.trigger_mode = "interval"
         THEN s.interval_seconds <= 0
              \/ s.last_trigger_at = NoTime
              \/ event_time - s.last_trigger_at >= s.interval_seconds * TimeUnitsPerSecond
    ELSE IF s.trigger_mode = "tick_batch"
         THEN s.tick_batch_size <= 1
              \/ s.tick_counter + 1 >= s.tick_batch_size
    ELSE s.last_trigger_at = NoTime
         \/ event_time - s.last_trigger_at >= MIN_REALTIME_INTERVAL

update_after_trigger(s, event_time) ==
    [s EXCEPT !.last_trigger_at = event_time, !.tick_counter = 0]

\* a finally block that leaves tick_counter alone
runner_finally_keeps_tick(s) == [s EXCEPT !.running = FALSE]

\* the finally block of runner
runner_finally(s) == [s EXCEPT !.running = FALSE, !.tick_counter = 0]

\* ------------------------------------------------------------------- Init
\* trading_commands.CACHE_TTL_SECONDS = 5.0
CACHE_TTL_SECONDS == 5 * TimeUnitsPerSecond
\* trading_commands.RATE_LIMIT_INTERVAL_SECONDS = 10.0
RATE_LIMIT_INTERVAL_SECONDS == 10 * TimeUnitsPerSecond

BrokerThreads == 1..NumBrokerThreads

\* no entry under the cache key of the account
NoEntry == [seq |-> 0, time |-> NoTime]

\* a thread outside binance_sync
IdleBroker ==
    [pc |-> "idle", account |-> 0, op |-> "none", wake |-> NoTime,
     got |-> 0, after_done |-> 0, after_err |-> 0]

\* the handlers the services subscribe: asset_snapshot_service.handle_price_update
\* and StrategyManager.handle_price_update
Handlers == {"snapshot", "strategy"}

Streams == 1..MaxStreams

\* no event in hand
NoEvent == [symbol |-> 0, n |-> 0]

\* a MarketDataStream that was not created: no thread
NoStream ==
    [pc |-> "none", stop |-> FALSE, i |-> 0, event |-> NoEvent, snapshot |-> <<>>,
     snapshot_seq |-> [h \in Handlers |-> 0], k |-> 0, invoked |-> <<>>,
     raised |-> {}, failed |-> FALSE]

\* the keys (symbol, market) of the price cache
CacheKeys == 1..NumSymbols

\* no entry under the key: cache.get(key) is None
NoPrice == [price |-> 0, timestamp |-> NoTime]

WsAccounts == 1..NumWsAccounts
WebSockets == 1..NumWebSockets

\* the stream thread outside the snapshot handler
IdleSnap ==
    [pc |-> "idle", runs |-> 0, event_time |-> NoTime, wrote |-> FALSE,
     swept |-> FALSE, deleted |-> 0, finished_at |-> NoTime,
     failed |-> FALSE, rolled_back |-> FALSE, invalidated |-> FALSE,
     after_failure |-> FALSE]

IdleOracle ==
    [pc |-> "idle", calls |-> 0, endpoints |-> 0, endpoint |-> 0, attempt |-> 0,
     sent |-> <<>>, success |-> FALSE]

\* the module globals of binance_sync right after import (the last call time 0.0
\* is the epoch, more than one interval before the process started) and an
\* empty snapshot table
InitAux ==
    /\ last_call_time = 0 - RATE_LIMIT_INTERVAL_SECONDS
    /\ cache = [a \in 1..NumAccounts |-> NoEntry]
    /\ bthreads = [t \in BrokerThreads |-> IdleBroker]
    /\ releases = <<>>
    /\ bseq = 0
    /\ bstarted = 0
    /\ done_seq = [a \in 1..NumAccounts |-> 0]
    /\ err_seq = [a \in 1..NumAccounts |-> 0]
    /\ snapshots = {}
    /\ snap = IdleSnap
    /\ handlers = <<>>
    /\ sub_seq = [h \in Handlers |-> 0]
    /\ sthreads = [t \in Streams |-> NoStream]
    /\ market_data_stream = 0
    /\ tally = [issued |-> 0, published |-> 0, tasks |-> 0, subscriptions |-> 0,
                created |-> 0]
    /\ seen = [h \in Handlers |-> <<>>]
    /\ life = [pc |-> "start_stream", calls |-> 0, joins |-> 0, back |-> "",
               published |-> 0, tasks |-> 0]
    /\ price_cache = [k \in CacheKeys |-> NoPrice]
    /\ history = [k \in CacheKeys |-> <<>>]
    /\ recorded = [k \in CacheKeys |-> {}]
    /\ cret = [op |-> "none", key |-> 0, at |-> NoTime, price |-> NoPrice,
               list |-> <<>>, n |-> 0]
    /\ active_connections = [a \in WsAccounts |-> {}]
    /\ connection_keys = {}
    /\ snapshot_jobs = {}
    /\ ws_calls = 0
    /\ oracle = IdleOracle

Init ==
    /\ InitAux
    /\ now = 0
    /\ accounts \in [1..NumAccounts -> {[status |-> "none", auto_trading_enabled |-> TRUE],
                                  [status |-> "active", auto_trading_enabled |-> TRUE]}]
    /\ configs = [a \in Accounts |-> NoConfig]
    /\ objs = <<>>
    /\ states = [a \in Accounts |-> 0]
    /\ last_refresh = 0
    /\ subscribed = FALSE
    /\ hp = IdleHp
    /\ api = IdleApi
    /\ runners = EmptyBag
    /\ jobScheduled = FALSE
    /\ job = IdleJob
    /\ trig = [a \in Accounts |-> NoTrig]
    /\ published = 0
    /\ served = 0
    /\ px = IdlePx
    /\ requests = <<>>
    /\ logs = <<>>

\* ------------------------------------------------- StrategyManager.start
\* refresh_strategies(force=True), then subscribe; no other thread runs yet
Start ==
    /\ ~subscribed
    /\ objs' = RefreshedObjs(configs)
    /\ configs' = RefreshedConfigs(configs)
    /\ states' = RefreshedStates
    /\ last_refresh' = now
    /\ subscribed' = TRUE
    /\ UNCHANGED <<now, accounts, hp, api, runners, jobScheduled, job, trig,
                   published, served, pipeVars, auxVars>>

\* -------------------------------------------------------------- API thread
\* requests are served once the startup handler (initialize_services) is through
\* POST /api/account: create_new_account
CreateAccount ==
    /\ subscribed
    /\ api.pc = "idle"
    /\ served < MaxApiCalls
    /\ served' = served + 1
    /\ \E a \in Accounts, auto \in BOOLEAN :
          /\ accounts[a].status = "none"
          /\ accounts' = [accounts EXCEPT ![a] =
                            [status |-> "active", auto_trading_enabled |-> auto]]
    /\ UNCHANGED <<now, configs, objs, states, last_refresh, subscribed, hp, api,
                   runners, jobScheduled, job, trig,
                   published, pipeVars, auxVars>>

\* PUT /api/account/{id}: update_account_settings, then reset_auto_trading_job in
\* a background thread (which schedules the job unless market data is not ready)
UpdateAccountSettings ==
    /\ subscribed
    /\ api.pc = "idle"
    /\ served < MaxApiCalls
    /\ served' = served + 1
    /\ \E a \in Accounts, auto \in BOOLEAN, ready \in BOOLEAN :
          /\ accounts[a].status = "active"
          /\ accounts' = [accounts EXCEPT ![a].auto_trading_enabled = auto]
          /\ jobScheduled' = (jobScheduled \/ ready)
    /\ UNCHANGED <<now, configs, objs, states, last_refresh, subscribed, hp, api,
                   runners, job, trig,
                   published, pipeVars, auxVars>>

\* the loop of a forced refresh_strategies run by the API thread, over rows cfgs
ApiRefreshLoop(cfgs) ==
    /\ objs' = RefreshedObjs(cfgs)
    /\ configs' = RefreshedConfigs(cfgs)
    /\ api' = [pc |-> "commit", new_states |-> RefreshedStates, rnow |-> now]

\* PUT /api/account/{id}/strategy: update_account_strategy up to the loop of
\* refresh_strategies(force=True)
UpdateStrategy ==
    /\ subscribed
    /\ api.pc = "idle"
    /\ served < MaxApiCalls
    /\ served' = served + 1
    /\ \E a \in Accounts, mode \in TriggerModes, enabled \in BOOLEAN,
          iv \in IntervalChoices, bs \in BatchChoices :
          /\ accounts[a].status = "active"
          /\ ApiRefreshLoop([configs EXCEPT ![a] =
                upsert_strategy(configs[a], mode,
                                IF mode = "interval" THEN iv ELSE NoInt,
                                IF mode = "tick_batch" THEN bs ELSE NoInt,
                                enabled)])
    /\ UNCHANGED <<now, accounts, states, last_refresh, subscribed, hp, runners,
                   jobScheduled, job, trig,
                   published, pipeVars, auxVars>>

\* GET /api/account/{id}/strategy for an account without a row: get_account_strategy
GetStrategy ==
    /\ subscribed
    /\ api.pc = "idle"
    /\ served < MaxApiCalls
    /\ served' = served + 1
    /\ \E a \in Accounts :
          /\ accounts[a].status = "active"
          /\ ~configs[a].exists
          /\ ApiRefreshLoop([configs EXCEPT ![a] =
                upsert_strategy(configs[a], "realtime", 1, 1,
                                accounts[a].auto_trading_enabled)])
    /\ UNCHANGED <<now, accounts, states, last_refresh, subscribed, hp, runners,
                   jobScheduled, job, trig,
                   published, pipeVars, auxVars>>

\* "with self._lock: self._states = new_states; self._last_refresh = now"
ApiRefreshCommit ==
    /\ api.pc = "commit"
    /\ states' = api.new_states
    /\ last_refresh' = api.rnow
    /\ api' = IdleApi
    /\ UNCHANGED <<now, accounts, configs, objs, subscribed, hp, runners,
                   jobScheduled, job, trig,
                   published, served, pipeVars, auxVars>>

\* ---------------------------------------------------------- stream thread
\* objs with the fields of object k replaced
SetObj(k, s) == [objs EXCEPT ![k] = s]

\* list(self._states.values())
StatesSnapshot == SetToSeq({states[a] : a \in {b \in Accounts : states[b] # 0}})

\* the handler moves on to the next state of its snapshot, or returns
HpNext ==
    IF hp.i < Len(hp.snap) THEN [hp EXCEPT !.pc = "tick", !.i = hp.i + 1] ELSE IdleHp

\* _process_symbol publishes an event at time t and handle_price_update starts
\* with refresh_strategies(): a return when the refresh is not due, else its loop
PublishAt(t) ==
    /\ now' = t
    /\ IF t - last_refresh < STRATEGY_REFRESH_INTERVAL
       THEN /\ hp' = [hp EXCEPT !.pc = "snapshot", !.event_time = t]
            /\ UNCHANGED <<objs, configs>>
       ELSE /\ objs' = RefreshedObjs(configs)
            /\ configs' = RefreshedConfigs(configs)
            /\ hp' = [hp EXCEPT !.pc = "commit", !.event_time = t,
                                !.new_states = RefreshedStates, !.rnow = t]

\* the market stream publishes its next event, some time after the last one
Publish ==
    /\ subscribed
    /\ hp.pc = "idle"
    /\ published < MaxEvents
    /\ published' = published + 1
    /\ \E d \in ClockSteps(now) : PublishAt(now + d)
    /\ UNCHANGED <<accounts, states, last_refresh, subscribed, api, runners,
                   jobScheduled, job, trig,
                   served, pipeVars, auxVars>>

\* "with self._lock: self._states = new_states; self._last_refresh = now"
HpRefreshCommit ==
    /\ hp.pc = "commit"
    /\ states' = hp.new_states
    /\ last_refresh' = hp.rnow
    /\ hp' = [hp EXCEPT !.pc = "snapshot", !.new_states = IdleHp.new_states, !.rnow = 0]
    /\ UNCHANGED <<now, accounts, configs, objs, subscribed, api, runners,
                   jobScheduled, job, trig,
                   published, served, pipeVars, auxVars>>

\* "with self._lock: states_snapshot = list(self._states.values())"
HpSnapshot ==
    /\ hp.pc = "snapshot"
    /\ hp' = IF StatesSnapshot = <<>> THEN IdleHp
             ELSE [hp EXCEPT !.pc = "tick", !.snap = StatesSnapshot, !.i = 1]
    /\ UNCHANGED <<now, accounts, configs, objs, states, last_refresh, subscribed, api,
                   runners, jobScheduled, job, trig,
                   published, served, pipeVars, auxVars>>

\* tick_batch: increment_tick reads tick_counter; any other mode: tick_counter = 0
HpTick ==
    /\ hp.pc = "tick"
    /\ LET k == hp.snap[hp.i] IN
          IF objs[k].trigger_mode = "tick_batch"
          THEN /\ hp' = [hp EXCEPT !.pc = "tickw", !.rd = objs[k].tick_counter]
               /\ UNCHANGED objs
          ELSE /\ objs' = SetObj(k, [objs[k] EXCEPT !.tick_counter = 0])
               /\ hp' = [hp EXCEPT !.pc = "check"]
    /\ UNCHANGED <<now, accounts, configs, states, last_refresh, subscribed, api,
                   runners, jobScheduled, job, trig,
                   published, served, pipeVars, auxVars>>

\* increment_tick writes tick_counter (self.tick_counter += 1 holds no lock)
HpTickWrite ==
    /\ hp.pc = "tickw"
    /\ LET k == hp.snap[hp.i] IN
          objs' = SetObj(k, [objs[k] EXCEPT !.tick_counter = hp.rd + 1])
    /\ hp' = [hp EXCEPT !.pc = "check", !.rd = 0]
    /\ UNCHANGED <<now, accounts, configs, states, last_refresh, subscribed, api,
                   runners, jobScheduled, job, trig,
                   published, served, pipeVars, auxVars>>

\* should_trigger = state.should_trigger(event_time)
HpCheck ==
    /\ hp.pc = "check"
    /\ hp' = IF should_trigger(objs[hp.snap[hp.i]], hp.event_time)
             THEN [hp EXCEPT !.pc = "trigger"]
             ELSE HpNext
    /\ UNCHANGED <<now, accounts, configs, objs, states, last_refresh, subscribed, api,
                   runners, jobScheduled, job, trig,
                   published, served, pipeVars, auxVars>>

\* a handler that runs the task itself and waits for it
after_thread_start_joins == [hp EXCEPT !.pc = "join"]

\* "threading.Thread(target=runner, ..., daemon=True).start()" returns at once
after_thread_start == HpNext

\* _trigger_account: disabled -> tick_counter = 0; running -> skip; else a runner
\* thread is started
HpTrigger ==
    /\ hp.pc = "trigger"
    /\ LET k == hp.snap[hp.i] IN
          IF ~objs[k].enabled
          THEN /\ objs' = SetObj(k, [objs[k] EXCEPT !.tick_counter = 0])
               /\ UNCHANGED runners
          ELSE IF objs[k].running
          THEN UNCHANGED <<objs, runners>>
          ELSE /\ runners' = runners (+) SetToBag({[obj |-> k, event_time |-> hp.event_time,
                                                   pc |-> "start", outcome |-> "none"]})
               /\ UNCHANGED objs
    /\ hp' = IF objs[hp.snap[hp.i]].enabled /\ ~objs[hp.snap[hp.i]].running
             THEN after_thread_start
             ELSE HpNext
    /\ UNCHANGED <<now, accounts, configs, states, last_refresh, subscribed, api,
                   jobScheduled, job, trig,
                   published, served, pipeVars, auxVars>>

\* ---------------------------------------------------------- runner threads
\* the thread r has exited
RemoveRunner(r) == runners (-) SetToBag({r})

\* the thread r has moved to pc
SetRunner(r, pc) == RemoveRunner(r) (+) SetToBag({[r EXCEPT !.pc = pc]})

\* the history of decision-task starts of an account
Started(t, s, event_time) ==
    [n |-> t.n + 1, seq |-> published, at |-> event_time, mode |-> s.trigger_mode, interval_seconds |-> s.interval_seconds]

\* "with state.lock: if state.running: return; state.running = True"
RunnerAcquire ==
    \E r \in BagToSet(runners) :
       /\ r.pc = "start"
       /\ LET k == r.obj IN
             IF objs[k].running
             THEN /\ runners' = RemoveRunner(r)
                  /\ UNCHANGED <<objs, trig>>
             ELSE /\ objs' = SetObj(k, [objs[k] EXCEPT !.running = TRUE])
                  /\ runners' = SetRunner(r, "pipeline")
                  /\ trig' = [trig EXCEPT ![objs[k].account_id] =
                                 Started(@, objs[k], r.event_time)]
       /\ UNCHANGED <<now, accounts, configs, states, last_refresh, subscribed, hp, api,
                      jobScheduled, job,
                   published, served, pipeVars, auxVars>>

\* a runner whose exception ends the thread before the finally block
runner_after_pipeline_no_finally(outcome) ==
    IF outcome = "raise" THEN "dead" ELSE "update"

\* "try: place_ai_driven_crypto_order(...); state.update_after_trigger(...)
\*  except Exception: ... finally: ...": where the runner goes after the call
runner_after_pipeline(outcome) ==
    IF outcome = "raise" THEN "finally" ELSE "update"

\* place_ai_driven_crypto_order(account_ids=[id]): it raises (SessionLocal), or
\* returns without a decision saved (account not trading, no prices, no reply of
\* the oracle, a failed save), or save_ai_decision writes the log row and
\* set_last_trigger(decision_time)
RunnerPipelineOf(a) ==
    \E r \in BagToSet(runners), outcome \in {"raise", "return", "saved"} :
       /\ r.pc = "pipeline"
       /\ objs[r.obj].account_id = a
       /\ outcome = "saved" => objs[r.obj].account_id \in TradingAccounts
       /\ configs' = IF outcome = "saved"
                     THEN set_last_trigger(configs, objs[r.obj].account_id,
                                           SqliteTimestamp(now))
                     ELSE configs
       /\ runners' = RemoveRunner(r) (+)
                      SetToBag({[r EXCEPT !.outcome = outcome,
                                          !.pc = runner_after_pipeline(outcome)]})
       /\ UNCHANGED <<now, accounts, objs, states, last_refresh, subscribed, hp, api,
                      jobScheduled, job, trig, published, served, pipeVars, auxVars>>

\* the runner of some account gets through its call of the pipeline
RunnerPipeline == \E a \in Accounts : RunnerPipelineOf(a)

\* state.update_after_trigger(event_time)
RunnerUpdate ==
    \E r \in BagToSet(runners) :
       /\ r.pc = "update"
       /\ objs' = SetObj(r.obj,
                         update_after_trigger(objs[r.obj], r.event_time))
       /\ runners' = SetRunner(r, "finally")
       /\ UNCHANGED <<now, accounts, configs, states, last_refresh, subscribed, hp, api,
                      jobScheduled, job, trig,
                   published, served, pipeVars, auxVars>>

\* "finally: with state.lock: state.running = False; state.tick_counter = 0"
RunnerFinally ==
    \E r \in BagToSet(runners) :
       /\ r.pc = "finally"
       /\ objs' = SetObj(r.obj, runner_finally(objs[r.obj]))
       /\ runners' = RemoveRunner(r)
       /\ UNCHANGED <<now, accounts, configs, states, last_refresh, subscribed, hp, api,
                      jobScheduled, job, trig,
                   published, served, pipeVars, auxVars>>

\* ------------------------------------------------- scheduled auto-trading job
\* the job of reset_auto_trading_job fires: place_ai_driven_crypto_order() over
\* get_active_ai_accounts
JobFire ==
    /\ jobScheduled
    /\ job.pc = "idle"
    /\ TradingAccounts # {}
    /\ job' = [pc |-> "account", queue |-> SetToSeq(TradingAccounts)]
    /\ UNCHANGED <<now, accounts, configs, objs, states, last_refresh, subscribed, hp,
                   api, runners, jobScheduled, trig,
                   published, served, pipeVars, auxVars>>

\* the job finishes the pipeline for the account at the head of its list
JobStep ==
    /\ job.pc = "account"
    /\ \E saved \in BOOLEAN :
          configs' = IF saved
                     THEN set_last_trigger(configs, Head(job.queue), SqliteTimestamp(now))
                     ELSE configs
    /\ job' = IF Len(job.queue) > 1 THEN [job EXCEPT !.queue = Tail(job.queue)] ELSE IdleJob
    /\ UNCHANGED <<now, accounts, objs, states, last_refresh, subscribed, hp, api,
                   runners, jobScheduled, trig,
                   published, served, pipeVars, auxVars>>

\* ------------------------------------------------------------ specification
Next ==
    \/ Start
    \/ CreateAccount
    \/ UpdateAccountSettings
    \/ UpdateStrategy
    \/ GetStrategy
    \/ ApiRefreshCommit
    \/ Publish
    \/ HpRefreshCommit
    \/ HpSnapshot
    \/ HpTick
    \/ HpTickWrite
    \/ HpCheck
    \/ HpTrigger
    \/ RunnerAcquire
    \/ RunnerPipeline
    \/ RunnerUpdate
    \/ RunnerFinally
    \/ JobFire
    \/ JobStep

Spec == Init /\ [][Next]_vars

\* ------------------------------------------- tick_batch with an instant oracle
\* the scenario: one account in tick_batch mode with batch size TickBatchSize,
\* TickBatchEvents events, each decision task over before the next event
TickBatchSize == 5
TickBatchEvents == 11

TickBatchConfig ==
    upsert_strategy(NoConfig, "tick_batch", NoInt, TickBatchSize, TRUE)

\* the state StrategyManager.start() leaves with that row stored
InitTickBatch ==
    /\ InitAux
    /\ now = 0
    /\ accounts = [a \in 1..NumAccounts |->
                      [status |-> "active", auto_trading_enabled |-> TRUE]]
    /\ configs = [a \in Accounts |-> TickBatchConfig]
    /\ objs = [a \in Accounts |-> NewState(a, TickBatchConfig, TRUE)]
    /\ states = [a \in Accounts |-> a]
    /\ last_refresh = 0
    /\ subscribed = TRUE
    /\ hp = IdleHp
    /\ api = IdleApi
    /\ runners = EmptyBag
    /\ jobScheduled = FALSE
    /\ job = IdleJob
    /\ trig = [a \in Accounts |-> NoTrig]
    /\ published = 0
    /\ served = 0
    /\ px = IdlePx
    /\ requests = <<>>
    /\ logs = <<>>

\* the market stream publishes its next event once the decision task the last one
\* started, if any, is over (the oracle returns immediately)
PublishAfterTask ==
    /\ subscribed
    /\ hp.pc = "idle"
    /\ runners = EmptyBag
    /\ published < TickBatchEvents
    /\ published' = published + 1
    /\ \E d \in ClockSteps(now) : PublishAt(now + d)
    /\ UNCHANGED <<accounts, states, last_refresh, subscribed, api, runners,
                   jobScheduled, job, trig, served, pipeVars, auxVars>>

NextTickBatch ==
    \/ PublishAfterTask
    \/ HpRefreshCommit
    \/ HpSnapshot
    \/ HpTick
    \/ HpTickWrite
    \/ HpCheck
    \/ HpTrigger
    \/ RunnerAcquire
    \/ RunnerPipeline
    \/ RunnerUpdate
    \/ RunnerFinally

SpecTickBatch == InitTickBatch /\ [][NextTickBatch]_vars

\* --------------------------------------------- two accounts, one slow oracle
\* the scenario: two active accounts, the first in realtime mode, the others
\* triggering on every tick; the oracle call of the first may never return
NumParallelAccounts == 2

ParallelConfig(a) ==
    IF a = 1 THEN upsert_strategy(NoConfig, "realtime", NoInt, NoInt, TRUE)
    ELSE upsert_strategy(NoConfig, "tick_batch", NoInt, 1, TRUE)

\* the state StrategyManager.start() leaves with those rows stored
InitParallel ==
    /\ InitAux
    /\ now = 0
    /\ accounts = [a \in 1..NumParallelAccounts |->
                      [status |-> "active", auto_trading_enabled |-> TRUE]]
    /\ configs = [a \in Accounts |-> ParallelConfig(a)]
    /\ objs = [a \in Accounts |-> NewState(a, ParallelConfig(a), TRUE)]
    /\ states = [a \in Accounts |-> a]
    /\ last_refresh = 0
    /\ subscribed = TRUE
    /\ hp = IdleHp
    /\ api = IdleApi
    /\ runners = EmptyBag
    /\ jobScheduled = FALSE
    /\ job = IdleJob
    /\ trig = [a \in Accounts |-> NoTrig]
    /\ published = 0
    /\ served = 0
    /\ px = IdlePx
    /\ requests = <<>>
    /\ logs = <<>>

NextParallel ==
    \/ Publish
    \/ HpRefreshCommit
    \/ HpSnapshot
    \/ HpTick
    \/ HpTickWrite
    \/ HpCheck
    \/ HpTrigger
    \/ RunnerAcquire
    \/ RunnerPipeline
    \/ RunnerUpdate
    \/ RunnerFinally

\* every thread that can take a step takes it in the end, but the call of the
\* pipeline (the oracle) of account 1 may take for ever
FairParallel ==
    /\ WF_vars(Publish)
    /\ WF_vars(HpRefreshCommit)
    /\ WF_vars(HpSnapshot)
    /\ WF_vars(HpTick)
    /\ WF_vars(HpTickWrite)
    /\ WF_vars(HpCheck)
    /\ WF_vars(HpTrigger)
    /\ WF_vars(RunnerAcquire)
    /\ WF_vars(\E a \in Accounts \ {1} : RunnerPipelineOf(a))
    /\ WF_vars(RunnerUpdate)
    /\ WF_vars(RunnerFinally)

SpecParallel == InitParallel /\ [][NextParallel]_vars /\ FairParallel

\* ------------------------------------------------------ the decision pipeline
\* decisions a trading account's pipeline makes
MaxDecisions == 2

\* quantities are counted in units of 10^-QtyDigits coin and money in the same
\* fraction of 1 USDT: round(float(quantity_decimal), 6)
QtyScale == 1000000
\* target_portion_of_balance is counted in tenths
PortionScale == 10

MIN_CRYPTO_QUANTITY == 1
\* CRYPTO_COMMISSION_RATE = 0.001 as the divisor of the notional
CommissionDivisor == 1000
\* CRYPTO_MIN_COMMISSION = 0.1
CRYPTO_MIN_COMMISSION == QtyScale \div 10
\* min_notional_map: 10 USDT for every pair
MinNotional == 10 * QtyScale
\* step_size_map["BTC"] = 0.00001
StepSize == QtyScale \div 100000

SUPPORTED_SYMBOLS == {"BTC"}

\* what the oracle may put into the fields of its reply
Operations == {"buy", "sell", "hold", "close", "Hold", "CLOSE"}
Symbols == {"BTC", "LUNA"}
PortionTenths == {0, 5, 10, 11}
Portions ==
    {[text |-> TRUE, tenths |-> 0]} \cup {[text |-> FALSE, tenths |-> n] : n \in PortionTenths}

Decisions ==
    {[operation |-> o, symbol |-> y, target_portion_of_balance |-> q] :
        o \in Operations, y \in Symbols, q \in Portions}

\* call_ai_for_decision returned None
NoDecision ==
    [operation |-> "None", symbol |-> "None",
     target_portion_of_balance |-> [text |-> FALSE, tenths |-> 0]]

\* the market price of the symbol in whole USDT (0: prices has no entry)
PriceChoices == {0, 3, 100}
\* the balance the broker reports in whole USDT (NoBalance: None)
NoBalance == -1
CashChoices == {NoBalance, 5, 100}
\* available_quantity of the position in the symbol (0: no position)
PositionChoices == {0, 1, 2 * QtyScale + 5, 3 * QtyScale + 333334}
\* how the exchange answers POST /api/v3/order
Replies == {"orderId", "code", "HTTPError", "timeout", "no orderId"}

\* str.lower() on the operations the oracle may send
Lower(operation) ==
    CASE operation = "Hold" -> "hold"
      [] operation = "CLOSE" -> "close"
      [] OTHER -> operation

\* no value: None in Python, NULL in a column
NoSymbol == "None"
NoOrderId == 0
\* the orderId the exchange gives to the k-th request it accepts
ExchangeOrderId(k) == 100 + k

\* _validate_ai_decision: "raise" (float() of a non-numeric portion), "None"
\* (rejected), "hold", or the operation of a valid buy / sell
validate_ai_decision(d) ==
    IF d = NoDecision THEN "None"
    ELSE IF d.target_portion_of_balance.text THEN "raise"
    ELSE IF Lower(d.operation) \notin {"buy", "sell", "hold"} THEN "None"
    ELSE IF Lower(d.operation) = "hold" THEN "hold"
    ELSE IF d.symbol \notin SUPPORTED_SYMBOLS THEN "None"
    ELSE IF d.target_portion_of_balance.tenths <= 0
            \/ d.target_portion_of_balance.tenths > PortionScale THEN "None"
    ELSE Lower(d.operation)

\* n / d rounded to the nearest integer
RoundDiv(n, d) == (2 * n + d) \div (2 * d)

Max(x, y) == IF x >= y THEN x ELSE y

\* _estimate_buy_cash_needed: the notional plus the commission
estimate_buy_cash_needed(price, quantity) ==
    LET notional == price * quantity
    IN notional + Max(notional \div CommissionDivisor, CRYPTO_MIN_COMMISSION)

\* _calculate_buy_quantity (0: None)
calculate_buy_quantity(price, tenths, cash) ==
    LET rounded == RoundDiv(cash * tenths * QtyScale, PortionScale * price)
        quantity == IF rounded <= 0 /\ cash * tenths > 0 THEN MIN_CRYPTO_QUANTITY
                    ELSE rounded
    IN IF quantity <= 0 THEN 0
       ELSE IF cash * QtyScale < estimate_buy_cash_needed(price, quantity) THEN 0
       ELSE quantity

\* a sell quantity without the floor of MIN_CRYPTO_QUANTITY
calculate_sell_quantity_no_floor(available_quantity, tenths) ==
    IF available_quantity <= 0 THEN 0
    ELSE (available_quantity * tenths) \div PortionScale

\* _calculate_sell_quantity for a position that has a free quantity (without
\* one, the function returns None and the caller skips the order)
calculate_sell_quantity(available_quantity, tenths) ==
    IF available_quantity <= 0 THEN 0
    ELSE LET quantity == Max(MIN_CRYPTO_QUANTITY,
                             (available_quantity * tenths) \div PortionScale)
         IN IF quantity > available_quantity THEN available_quantity ELSE quantity

\* by how many steps a float floor division may fall short of the exact floor
\* when the exact quotient is a whole number (the float step_size 0.00001 is a
\* little more than 10^-5)
FloorSlips == {0, 1}

\* n // d in floats: the exact floor, or one less for a whole quotient
FloorDiv(n, d, slip) == IF n % d = 0 /\ n > 0 THEN (n \div d) - slip ELSE n \div d

\* the quantity is sent although its value after rounding down is below
\* min_notional
adjusted_quantity_no_recheck(quantity, price, slip, slip_needed) ==
    LET adjusted == FloorDiv(quantity, StepSize, slip) * StepSize
    IN IF quantity * price < MinNotional THEN 0
       ELSE IF adjusted <= 0 THEN 0
       ELSE adjusted

\* execute_binance_order up to the request: the quantity it would send (0: it
\* returns a failure without sending anything)
adjusted_quantity(quantity, price, slip, slip_needed) ==
    LET adjusted == FloorDiv(quantity, StepSize, slip) * StepSize
        needed == FloorDiv(MinNotional, price * StepSize, slip_needed) * StepSize + StepSize
    IN IF quantity * price < MinNotional THEN 0
       ELSE IF adjusted <= 0 THEN 0
       ELSE IF adjusted * price >= MinNotional THEN adjusted
       ELSE IF needed * price >= MinNotional THEN needed
       ELSE 0

\* a submission that failed is sent again
after_submit_retry(success, reply) == IF success THEN "verify" ELSE "submit"

\* where the body goes after _execute_real_trade returned: "if executed:" to
\* _verify_trade_execution, else to save_ai_decision, whatever the exchange replied
after_submit(success, reply) == IF success THEN "verify" ELSE "save"

\* what _verify_trade_execution finds when it fetches the positions again
Verifications == {"verified", "mismatch", "missing", "error"}

\* an error of the verification that leaves _verify_trade_execution
after_verify_propagates(observed) == IF observed = "error" THEN "except" ELSE "save"

\* _verify_trade_execution logs what it finds and returns None; "except
\* Exception as verify_err" logs too; save_ai_decision(executed=True) is next
after_verify(observed) == "save"

\* the thread with the outcome of the decision noted and save_ai_decision ahead
ToSave(why, executed) == [px EXCEPT !.pc = "save", !.why = why, !.executed = executed]

\* the thread at the end of the body without any save_ai_decision
ToDone(why) == [px EXCEPT !.pc = "done", !.why = why]

\* the body of the loop starts for a trading account: portfolio, then the oracle
PipeStart ==
    /\ px.pc \in {"idle", "done"}
    /\ \E a \in TradingAccounts, n \in 1..MaxDecisions :
          /\ n = (IF px.pc = "idle" THEN 1 ELSE px.id + 1)
          /\ px' = [pc |-> "oracle", id |-> n, account |-> a, decision |-> NoDecision,
                    why |-> "", executed |-> FALSE, side |-> "", quantity |-> 0,
                    available_quantity |-> 0, price |-> 0, verification |-> "none"]
    /\ UNCHANGED <<engineVars, auxVars, requests, logs>>

\* decision = call_ai_for_decision(...); decision_result = _validate_ai_decision(...)
PipeDecide ==
    /\ px.pc = "oracle"
    /\ \E d \in Decisions \cup {NoDecision} :
          LET v == validate_ai_decision(d)
              p == [px EXCEPT !.decision = d]
          IN px' = CASE v = "raise" -> [p EXCEPT !.pc = "done", !.why = "raise"]
                     [] v = "None" /\ d = NoDecision ->
                            [p EXCEPT !.pc = "done", !.why = "no decision"]
                     [] v = "None" ->
                            [p EXCEPT !.pc = "save", !.why = "invalid", !.executed = FALSE]
                     [] v = "hold" ->
                            [p EXCEPT !.pc = "save", !.why = "hold", !.executed = TRUE]
                     [] OTHER -> [p EXCEPT !.pc = "price"]
    /\ UNCHANGED <<engineVars, auxVars, requests, logs>>

\* price = prices.get(symbol), then the quantity from the broker's balance (buy)
\* or positions (sell)
PipeSize ==
    /\ px.pc = "price"
    /\ \E price \in PriceChoices, cash \in CashChoices, available \in PositionChoices :
          LET tenths == px.decision.target_portion_of_balance.tenths
              buy == calculate_buy_quantity(price, tenths, cash)
              sell == calculate_sell_quantity(available, tenths)
              operation == validate_ai_decision(px.decision)
          IN px' = CASE price <= 0 -> ToSave("no price", FALSE)
                     [] operation = "buy" /\ cash = NoBalance ->
                            ToSave("no balance", FALSE)
                     [] operation = "buy" /\ buy = 0 ->
                            ToSave("insufficient cash", FALSE)
                     [] operation = "buy" ->
                            [px EXCEPT !.pc = "execute", !.side = "BUY",
                                       !.quantity = buy, !.price = price]
                     [] operation = "sell" /\ available <= 0 ->
                            ToSave("no position", FALSE)
                     [] OTHER ->
                            [px EXCEPT !.pc = "execute", !.side = "SELL",
                                       !.quantity = sell, !.price = price,
                                       !.available_quantity = available]
    /\ UNCHANGED <<engineVars, auxVars, requests, logs>>

\* the account has no API keys, or execute_binance_order rejects the order
\* locally: no request is sent
PipeNoRequest ==
    /\ px.pc = "execute"
    /\ \E keys \in BOOLEAN, slip \in FloorSlips, slip_needed \in FloorSlips :
          /\ ~keys \/ adjusted_quantity(px.quantity, px.price, slip, slip_needed) = 0
          /\ px' = ToSave(IF keys THEN "rejected locally" ELSE "no keys", FALSE)
    /\ UNCHANGED <<engineVars, auxVars, requests, logs>>

\* _execute_real_trade: execute_binance_order sends POST /api/v3/order and
\* returns by the reply
PipeSubmit ==
    /\ px.pc \in {"execute", "submit"}
    /\ \E reply \in Replies, slip \in FloorSlips, slip_needed \in FloorSlips :
          LET success == reply = "orderId"
              quantity == adjusted_quantity(px.quantity, px.price, slip, slip_needed)
          IN /\ quantity > 0
             /\ requests' = Append(requests,
                   [id |-> px.id, side |-> px.side, quantity |-> quantity,
                    price |-> px.price, success |-> success,
                    order_id |-> IF success THEN ExchangeOrderId(Len(requests) + 1)
                                 ELSE NoOrderId])
             /\ px' = [px EXCEPT !.pc = after_submit(success, reply), !.why = "sent",
                                 !.executed = success]
    /\ UNCHANGED <<engineVars, auxVars, logs>>

\* "if executed: _verify_trade_execution(...)", before the decision is saved
PipeVerify ==
    /\ px.pc = "verify"
    /\ \E observed \in Verifications :
          px' = [px EXCEPT !.pc = after_verify(observed), !.verification = observed]
    /\ UNCHANGED <<engineVars, auxVars, requests, logs>>

\* the AIDecisionLog row save_ai_decision builds (id: the decision it is of)
decision_log(id, account_id, decision, executed, order_id) ==
    LET operation == Lower(decision.operation) IN
       [id |-> id, account_id |-> account_id, operation |-> operation,
        symbol |-> IF operation # "hold" THEN decision.symbol ELSE NoSymbol,
        executed |-> executed, order_id |-> order_id]

\* save_ai_decision, called without an order_id on every path: the row is
\* committed, or an exception inside is logged, rolled back and swallowed
PipeSave ==
    /\ px.pc = "save"
    /\ \E committed \in BOOLEAN :
          logs' = IF committed
                  THEN Append(logs, decision_log(px.id, px.account, px.decision,
                                                 px.executed, NoOrderId))
                  ELSE logs
    /\ px' = [px EXCEPT !.pc = "done"]
    /\ UNCHANGED <<engineVars, auxVars, requests>>

NextPipeline ==
    \/ PipeStart
    \/ PipeDecide
    \/ PipeSize
    \/ PipeNoRequest
    \/ PipeSubmit
    \/ PipeVerify
    \/ PipeSave

SpecPipeline == Init /\ [][NextPipeline]_vars

\* ----------------------------------------------------------- broker adapter
\* the signed calls of binance_sync, each for one account
BrokerOps == {"balance", "order", "cancel", "open_orders"}

MaxBrokerTime == 2 * RATE_LIMIT_INTERVAL_SECONDS + ClockSlack

\* the instants at which the broker's clock is observed: a few ticks after every
\* whole cache TTL
BrokerClockSteps(t) ==
    {d \in {1} : t % CACHE_TTL_SECONDS < ClockSlack /\ t + d <= MaxBrokerTime}
        \cup {d \in {CACHE_TTL_SECONDS} : t + d <= MaxBrokerTime}

\* everything but the broker adapter and the clock
nonBrokerVars ==
    <<accounts, configs, objs, states, last_refresh, subscribed, hp, api, runners,
      jobScheduled, job, trig, published, served, pipeVars, snapshotVars,
      streamVars, cacheVars, wsVars, oracle>>

\* time passes while the threads sleep, wait for a reply or do something else
BrokerTick ==
    /\ \E d \in BrokerClockSteps(now) : now' = now + d
    /\ UNCHANGED <<brokerVars, nonBrokerVars>>

\* the cache check of get_binance_balance_and_positions: an entry younger than
\* the TTL is a hit
CacheHit(a) == cache[a] # NoEntry /\ now - cache[a].time < CACHE_TTL_SECONDS

\* _apply_rate_limiting under _global_binance_lock, as it leaves thread record r:
\* the call goes on at once when the last one is an interval ago, otherwise the
\* lock is released and the thread sleeps for the shortfall
ApplyRateLimiting(r) ==
    LET time_since_last_call == now - last_call_time IN
       IF time_since_last_call < RATE_LIMIT_INTERVAL_SECONDS
       THEN [r EXCEPT !.pc = "sleep",
                      !.wake = now + (RATE_LIMIT_INTERVAL_SECONDS - time_since_last_call)]
       ELSE [r EXCEPT !.pc = "http"]

\* a thread enters a signed call for account a: get_binance_balance_and_positions
\* returns the cached result on a hit, every other call goes to the limiter
BrokerCall(t) ==
    /\ bthreads[t].pc = "idle"
    /\ bstarted < MaxBrokerCalls
    /\ bstarted' = bstarted + 1
    /\ \E a \in Accounts, op \in BrokerOps :
          LET r == [IdleBroker EXCEPT !.account = a, !.op = op]
              after == IF op = "balance" /\ CacheHit(a)
                       THEN [r EXCEPT !.pc = "hit", !.got = cache[a].seq,
                                      !.after_done = done_seq[a],
                                      !.after_err = err_seq[a]]
                       ELSE ApplyRateLimiting(r)
          IN /\ bthreads' = [bthreads EXCEPT ![t] = after]
             /\ last_call_time' = IF after.pc = "http" THEN now ELSE last_call_time
             /\ releases' = IF after.pc = "http" THEN Append(releases, now) ELSE releases
    /\ UNCHANGED <<now, cache, bseq, done_seq, err_seq, nonBrokerVars>>

\* the cached balance and positions are returned to the caller
BrokerHitReturn(t) ==
    /\ bthreads[t].pc = "hit"
    /\ bthreads' = [bthreads EXCEPT ![t] = IdleBroker]
    /\ UNCHANGED <<now, last_call_time, cache, releases, bseq, bstarted, done_seq,
                   err_seq, nonBrokerVars>>

\* the sleep is over: the lock is taken again, the last call time is set to the
\* present and the call goes on, whoever else was let go during the sleep
RateLimitWake(t) ==
    /\ bthreads[t].pc = "sleep"
    /\ now >= bthreads[t].wake
    /\ last_call_time' = now
    /\ releases' = Append(releases, now)
    /\ bthreads' = [bthreads EXCEPT ![t].pc = "http"]
    /\ UNCHANGED <<now, cache, bseq, bstarted, done_seq, err_seq, nonBrokerVars>>

\* _make_signed_request returns or raises and the call returns to its caller:
\* a balance is cached, a failed balance fetch deletes the entry, and no other
\* call touches the cache
BrokerReturn(t) ==
    /\ bthreads[t].pc = "http"
    /\ bseq' = bseq + 1
    /\ \E ok \in BOOLEAN :
          LET a == bthreads[t].account
              op == bthreads[t].op
          IN /\ cache' = IF op # "balance" THEN cache
                         ELSE IF ok THEN [cache EXCEPT ![a] = [seq |-> bseq', time |-> now]]
                         ELSE [cache EXCEPT ![a] = NoEntry]
             /\ done_seq' = IF ok /\ op \in {"order", "cancel"}
                            THEN [done_seq EXCEPT ![a] = bseq'] ELSE done_seq
             /\ err_seq' = IF ok THEN err_seq ELSE [err_seq EXCEPT ![a] = bseq']
    /\ bthreads' = [bthreads EXCEPT ![t] = IdleBroker]
    /\ UNCHANGED <<now, last_call_time, releases, bstarted, nonBrokerVars>>

NextBroker ==
    \/ BrokerTick
    \/ \E t \in BrokerThreads : BrokerCall(t)
    \/ \E t \in BrokerThreads : BrokerHitReturn(t)
    \/ \E t \in BrokerThreads : RateLimitWake(t)
    \/ \E t \in BrokerThreads : BrokerReturn(t)

SpecBroker == Init /\ [][NextBroker]_vars

\* --------------------------------------------------- asset snapshot service
\* asset_snapshot_service.SNAPSHOT_RETENTION_HOURS
SNAPSHOT_RETENTION_HOURS == 24 * 30

\* timedelta(hours=cutoff_hours) in time units
Retention(cutoff_hours) == cutoff_hours * 3600 * TimeUnitsPerSecond

MaxSnapshotTime == 2 * Retention(SNAPSHOT_RETENTION_HOURS) + ClockSlack + 1

\* the instants at which the handler's clock is observed: a few ticks after every
\* whole retention window
SnapshotClockSteps(t) ==
    {d \in {1} : t % Retention(SNAPSHOT_RETENTION_HOURS) <= ClockSlack
                    /\ t + d <= MaxSnapshotTime}
        \cup {d \in {Retention(SNAPSHOT_RETENTION_HOURS)} : t + d <= MaxSnapshotTime}

\* everything but the snapshot table, the handler and the clock
nonSnapshotVars ==
    <<accounts, configs, objs, states, last_refresh, subscribed, hp, api, runners,
      jobScheduled, job, trig, published, served, pipeVars, brokerVars,
      streamVars, cacheVars, wsVars, oracle>>

\* time passes between price events and inside the handler (balance fetches)
SnapTick ==
    /\ \E d \in SnapshotClockSteps(now) : now' = now + d
    /\ UNCHANGED <<snapshotVars, nonSnapshotVars>>

\* a sweep that keeps twice the retention window
purge_old_snapshots_double_window(rows, t, cutoff_hours) ==
    {row \in rows : ~(row.event_time < t - 2 * Retention(cutoff_hours))}

\* _purge_old_snapshots at time t: the rows with event_time < cutoff_time are
\* deleted
purge_old_snapshots(rows, t, cutoff_hours) ==
    {row \in rows : ~(row.event_time < t - Retention(cutoff_hours))}

\* handle_price_update is called by the stream thread with the event just
\* published: no active account, return; else the snapshots are computed
SnapStart ==
    /\ snap.pc = "idle"
    /\ snap.runs < MaxSnapshotRuns
    /\ snap' = IF ActiveAccounts = {}
               THEN [IdleSnap EXCEPT !.runs = snap.runs + 1, !.event_time = now,
                                     !.finished_at = now,
                                     !.after_failure = snap.failed \/ snap.after_failure]
               ELSE [IdleSnap EXCEPT !.runs = snap.runs + 1, !.event_time = now,
                                     !.pc = "write",
                                     !.after_failure = snap.failed \/ snap.after_failure]
    /\ UNCHANGED <<now, snapshots, nonSnapshotVars>>

\* a handler that clears the asset-curve cache before it knows of the commit
on_persist_error_invalidated(s) ==
    [s EXCEPT !.pc = "idle", !.failed = TRUE, !.rolled_back = TRUE,
              !.invalidated = TRUE, !.finished_at = now]

\* bulk_save_objects or commit raised: "except Exception as err:
\* session.rollback(); logger.error(...)", "finally: session.close()", and the
\* handler returns
on_persist_error(s) ==
    [s EXCEPT !.pc = "idle", !.failed = TRUE, !.rolled_back = TRUE,
              !.finished_at = now]

\* "if snapshots: bulk_save_objects; commit; invalidate_asset_curve_cache()": one
\* row per account whose snapshot was computed; a failed commit is rolled back by
\* the handler of the outer try, which ends the run without the sweep
SnapWrite ==
    /\ snap.pc = "write"
    /\ \E computed \in SUBSET ActiveAccounts, committed \in BOOLEAN :
          IF computed = {}
          THEN /\ snap' = [snap EXCEPT !.pc = "purge"]
               /\ UNCHANGED snapshots
          ELSE IF committed
          THEN /\ snapshots' = snapshots \cup
                      {[id |-> snap.runs, account_id |-> a,
                        event_time |-> snap.event_time] : a \in computed}
               /\ snap' = [snap EXCEPT !.pc = "purge", !.wrote = TRUE,
                                       !.invalidated = TRUE]
          ELSE /\ snap' = on_persist_error(snap)
               /\ UNCHANGED snapshots
    /\ UNCHANGED <<now, nonSnapshotVars>>

\* _purge_old_snapshots(session, cutoff_hours=SNAPSHOT_RETENTION_HOURS), the last
\* statement of the run; a failed delete is rolled back by the same handler
SnapPurge ==
    /\ snap.pc = "purge"
    /\ \E swept \in BOOLEAN :
          /\ snapshots' = IF swept
                          THEN purge_old_snapshots(snapshots, now,
                                                   SNAPSHOT_RETENTION_HOURS)
                          ELSE snapshots
          /\ snap' = [snap EXCEPT !.pc = "idle", !.swept = swept,
                                  !.rolled_back = ~swept,
                                  !.deleted = Cardinality(snapshots)
                                                - Cardinality(snapshots'),
                                  !.finished_at = now]
    /\ UNCHANGED <<now, nonSnapshotVars>>

NextSnapshot ==
    \/ SnapTick
    \/ SnapStart
    \/ SnapWrite
    \/ SnapPurge

SpecSnapshot == Init /\ [][NextSnapshot]_vars

\* ------------------------------------------- event bus and market stream
\* everything but the bus, the stream threads and their callers
nonStreamVars ==
    <<now, accounts, configs, objs, states, last_refresh, subscribed, hp, api, runners,
      jobScheduled, job, trig, published, served, pipeVars, brokerVars, snapshotVars,
      cacheVars, wsVars, oracle>>

\* "handler in self._handlers"
Subscribed(hs, h) == \E j \in 1..Len(hs) : hs[j] = h

\* a subscribe that puts the new handler first
subscribe_in_front(hs, h) == IF Subscribed(hs, h) THEN hs ELSE <<h>> \o hs

\* MarketEventDispatcher.subscribe
subscribe(hs, h) == IF Subscribed(hs, h) THEN hs ELSE Append(hs, h)

\* MarketEventDispatcher.unsubscribe
unsubscribe(hs, h) == SelectSeq(hs, LAMBDA x : x # h)

\* subscribe_price_updates(h) with its history
DoSubscribe(h) ==
    /\ handlers' = subscribe(handlers, h)
    /\ IF Subscribed(handlers, h)
       THEN UNCHANGED <<sub_seq, tally>>
       ELSE /\ tally' = [tally EXCEPT !.subscriptions = @ + 1]
            /\ sub_seq' = [sub_seq EXCEPT ![h] = tally.subscriptions + 1]

\* unsubscribe_price_updates(h) with its history
DoUnsubscribe(h) ==
    /\ handlers' = unsubscribe(handlers, h)
    /\ sub_seq' = [sub_seq EXCEPT ![h] = 0]

\* Thread.is_alive()
Alive(r) == r.pc \notin {"none", "exited", "dead"}

\* start_market_stream: a live stream only gets its symbols updated, else a new
\* MarketDataStream is created and its thread started
DoStartMarketStream ==
    IF market_data_stream # 0 /\ Alive(sthreads[market_data_stream])
    THEN UNCHANGED <<sthreads, market_data_stream, tally>>
    ELSE /\ tally.created < MaxStreams
         /\ tally' = [tally EXCEPT !.created = @ + 1]
         /\ market_data_stream' = tally.created + 1
         /\ sthreads' = [sthreads EXCEPT ![tally.created + 1] =
                             [NoStream EXCEPT !.pc = "loop"]]

\* stop_market_stream up to the join: no stream, nothing to do and the caller
\* goes on at pc back; else the stop event is set and the thread is joined
DoStopMarketStream(back) ==
    IF market_data_stream = 0
    THEN /\ life' = [life EXCEPT !.pc = back, !.published = tally.published,
                                 !.tasks = tally.tasks]
         /\ UNCHANGED sthreads
    ELSE /\ sthreads' = [sthreads EXCEPT ![market_data_stream].stop = TRUE]
         /\ life' = [life EXCEPT !.pc = "join", !.back = back]

\* initialize_services l.42: start_market_stream
InitStartStream ==
    /\ life.pc = "start_stream"
    /\ DoStartMarketStream
    /\ life' = [life EXCEPT !.pc = "subscribe_snapshot"]
    /\ UNCHANGED <<handlers, sub_seq, seen, nonStreamVars>>

\* initialize_services l.43: subscribe_price_updates(handle_price_update)
InitSubscribeSnapshot ==
    /\ life.pc = "subscribe_snapshot"
    /\ DoSubscribe("snapshot")
    /\ life' = [life EXCEPT !.pc = "start_strategy"]
    /\ UNCHANGED <<sthreads, market_data_stream, seen, nonStreamVars>>

\* start_trading_strategy_manager: strategy_manager.start() subscribes
InitStartStrategy ==
    /\ life.pc = "start_strategy"
    /\ DoSubscribe("strategy")
    /\ life' = [life EXCEPT !.pc = "ensure_stream"]
    /\ UNCHANGED <<sthreads, market_data_stream, seen, nonStreamVars>>

\* start_trading_strategy_manager: start_market_stream once more
InitEnsureStream ==
    /\ life.pc = "ensure_stream"
    /\ DoStartMarketStream
    /\ life' = [life EXCEPT !.pc = "running"]
    /\ UNCHANGED <<handlers, sub_seq, seen, nonStreamVars>>

\* a call of subscribe_price_updates while the services run
CallSubscribe ==
    /\ life.pc = "running"
    /\ life.calls < MaxLifecycleCalls
    /\ \E h \in Handlers : DoSubscribe(h)
    /\ life' = [life EXCEPT !.calls = @ + 1]
    /\ UNCHANGED <<sthreads, market_data_stream, seen, nonStreamVars>>

\* a call of unsubscribe_price_updates while the services run
CallUnsubscribe ==
    /\ life.pc = "running"
    /\ life.calls < MaxLifecycleCalls
    /\ \E h \in Handlers : DoUnsubscribe(h)
    /\ life' = [life EXCEPT !.calls = @ + 1]
    /\ UNCHANGED <<sthreads, market_data_stream, tally, seen, nonStreamVars>>

\* a call of start_market_stream while the services run
CallStartMarketStream ==
    /\ life.pc = "running"
    /\ life.calls < MaxLifecycleCalls
    /\ DoStartMarketStream
    /\ life' = [life EXCEPT !.calls = @ + 1]
    /\ UNCHANGED <<handlers, sub_seq, seen, nonStreamVars>>

\* a call of stop_market_stream while the services run
CallStopMarketStream ==
    /\ life.pc = "running"
    /\ life.calls < MaxLifecycleCalls
    /\ DoStopMarketStream("called")
    /\ UNCHANGED <<handlers, sub_seq, market_data_stream, tally, seen, nonStreamVars>>

\* the call of stop_market_stream has returned to its caller
CallReturn ==
    /\ life.pc = "called"
    /\ life' = [life EXCEPT !.pc = "running", !.calls = @ + 1]
    /\ UNCHANGED <<handlers, sub_seq, sthreads, market_data_stream, tally, seen,
                   nonStreamVars>>

\* the places of _process_symbol at which the stream thread waits for the
\* network, the database or a handler
Blocked == {"fetch", "persist", "handler"}

\* "self._thread.join(timeout=5)", then "market_data_stream = None": the thread
\* has ended, or it is held up for longer than the timeout
Join ==
    /\ life.pc = "join"
    /\ \/ ~Alive(sthreads[market_data_stream])
       \/ sthreads[market_data_stream].pc \in Blocked
    /\ market_data_stream' = 0
    /\ life' = [life EXCEPT !.pc = life.back, !.joins = @ + 1,
                            !.published = tally.published, !.tasks = tally.tasks]
    /\ UNCHANGED <<handlers, sub_seq, sthreads, tally, seen, nonStreamVars>>

\* shutdown_services l.94: stop_trading_strategy_manager
ShutdownStopStrategy ==
    /\ life.pc = "running"
    /\ DoUnsubscribe("strategy")
    /\ life' = [life EXCEPT !.pc = "stop_stream"]
    /\ UNCHANGED <<sthreads, market_data_stream, tally, seen, nonStreamVars>>

\* shutdown_services l.95: stop_market_stream
ShutdownStopStream ==
    /\ life.pc = "stop_stream"
    /\ DoStopMarketStream("unsubscribe_snapshot")
    /\ UNCHANGED <<handlers, sub_seq, market_data_stream, tally, seen, nonStreamVars>>

\* shutdown_services l.96: unsubscribe_price_updates(handle_price_update)
ShutdownUnsubscribeSnapshot ==
    /\ life.pc = "unsubscribe_snapshot"
    /\ DoUnsubscribe("snapshot")
    /\ life' = [life EXCEPT !.pc = "down"]
    /\ UNCHANGED <<sthreads, market_data_stream, tally, seen, nonStreamVars>>

\* the stream thread r goes on to its next symbol, or sleeps and re-enters the
\* while loop
NextSymbol(r) ==
    [NoStream EXCEPT !.stop = r.stop, !.failed = r.failed,
                     !.pc = IF r.i = NumSymbols THEN "loop" ELSE "symbol",
                     !.i = IF r.i = NumSymbols THEN 0 ELSE r.i + 1]

\* a _process_symbol that lets the failure of its fetch out
process_symbol_failure_propagates(where) ==
    IF where = "fetch" THEN "dead" ELSE "return"

\* _process_symbol: a failed fetch is logged and the method returns; a failure
\* in _persist_tick is rolled back and logged there
process_symbol_failure(where) == "return"

\* a publish that lets the exception of a handler out
publish_on_handler_error_propagates(h) == "dead"

\* MarketEventDispatcher.publish: "except Exception: logger.exception(...)"
publish_on_handler_error(h) == "continue"

\* "while not self._stop_event.is_set()"
StreamLoop(t) ==
    /\ sthreads[t].pc = "loop"
    /\ sthreads' = [sthreads EXCEPT ![t] =
                        IF sthreads[t].stop THEN [@ EXCEPT !.pc = "exited"]
                        ELSE [@ EXCEPT !.pc = "symbol", !.i = 1]]
    /\ UNCHANGED <<handlers, sub_seq, market_data_stream, tally, seen, life,
                   nonStreamVars>>

\* "for symbol in self.symbols: if self._stop_event.is_set(): break"
StreamSymbol(t) ==
    /\ sthreads[t].pc = "symbol"
    /\ sthreads' = [sthreads EXCEPT ![t] =
                        IF sthreads[t].stop THEN [@ EXCEPT !.pc = "loop", !.i = 0]
                        ELSE [@ EXCEPT !.pc = "fetch"]]
    /\ UNCHANGED <<handlers, sub_seq, market_data_stream, tally, seen, life,
                   nonStreamVars>>

\* _process_symbol: get_last_price raises, returns None, or returns a price,
\* and then the event is stamped with datetime.now
StreamFetch(t) ==
    /\ sthreads[t].pc = "fetch"
    /\ \E outcome \in {"raise", "none", "price"} :
          CASE outcome = "price" ->
                 /\ tally.issued < MaxStreamEvents
                 /\ tally' = [tally EXCEPT !.issued = @ + 1]
                 /\ sthreads' = [sthreads EXCEPT ![t] =
                                     [@ EXCEPT !.pc = "persist",
                                               !.event = [symbol |-> sthreads[t].i,
                                                          n |-> tally.issued + 1]]]
            [] outcome = "none" ->
                 /\ sthreads' = [sthreads EXCEPT ![t] =
                                     NextSymbol([@ EXCEPT !.failed = TRUE])]
                 /\ UNCHANGED tally
            [] outcome = "raise" ->
                 /\ sthreads' = [sthreads EXCEPT ![t] =
                                     IF process_symbol_failure("fetch") = "return"
                                     THEN NextSymbol([@ EXCEPT !.failed = TRUE])
                                     ELSE [@ EXCEPT !.pc = "dead", !.failed = TRUE]]
                 /\ UNCHANGED tally
    /\ UNCHANGED <<handlers, sub_seq, market_data_stream, seen, life, nonStreamVars>>

\* record_price_update, then _persist_tick: the tick is committed, or the
\* failure is rolled back and logged
StreamPersist(t) ==
    /\ sthreads[t].pc = "persist"
    /\ \E committed \in BOOLEAN :
          sthreads' = [sthreads EXCEPT ![t] =
                          IF committed THEN [@ EXCEPT !.pc = "publish"]
                          ELSE IF process_symbol_failure("persist") = "return"
                          THEN [@ EXCEPT !.pc = "publish", !.failed = TRUE]
                          ELSE [@ EXCEPT !.pc = "dead", !.failed = TRUE]]
    /\ UNCHANGED <<handlers, sub_seq, market_data_stream, tally, seen, life,
                   nonStreamVars>>

\* publish: "with self._lock: handlers_snapshot = list(self._handlers)"
StreamPublish(t) ==
    /\ sthreads[t].pc = "publish"
    /\ tally' = [tally EXCEPT !.published = @ + 1]
    /\ sthreads' = [sthreads EXCEPT ![t] =
                        [@ EXCEPT !.pc = IF handlers = <<>> THEN "return" ELSE "handler",
                                  !.snapshot = handlers, !.snapshot_seq = sub_seq,
                                  !.k = 1]]
    /\ UNCHANGED <<handlers, sub_seq, market_data_stream, seen, life, nonStreamVars>>

\* publish: "handler(event)" for the k-th handler of the copy; the strategy
\* handler may start a decision task; an exception is logged
StreamHandler(t) ==
    /\ sthreads[t].pc = "handler"
    /\ LET r == sthreads[t]
           h == r.snapshot[r.k]
       IN /\ seen' = [seen EXCEPT ![h] = Append(@, r.event)]
          /\ \E raises \in BOOLEAN, triggers \in BOOLEAN :
                /\ triggers => (h = "strategy" /\ ~raises)
                /\ tally' = [tally EXCEPT !.tasks = IF triggers THEN @ + 1 ELSE @]
                /\ sthreads' = [sthreads EXCEPT ![t] =
                       [@ EXCEPT !.invoked = Append(@, h),
                                 !.raised = IF raises THEN @ \cup {h} ELSE @,
                                 !.k = r.k + 1,
                                 !.pc = IF raises /\ publish_on_handler_error(h) = "dead"
                                        THEN "dead"
                                        ELSE IF r.k = Len(r.snapshot) THEN "return"
                                        ELSE "handler"]]
    /\ UNCHANGED <<handlers, sub_seq, market_data_stream, life, nonStreamVars>>

\* publish has returned to _process_symbol, which returns to the for loop
StreamReturn(t) ==
    /\ sthreads[t].pc = "return"
    /\ sthreads' = [sthreads EXCEPT ![t] = NextSymbol(@)]
    /\ UNCHANGED <<handlers, sub_seq, market_data_stream, tally, seen, life,
                   nonStreamVars>>

NextStream ==
    \/ InitStartStream
    \/ InitSubscribeSnapshot
    \/ InitStartStrategy
    \/ InitEnsureStream
    \/ CallSubscribe
    \/ CallUnsubscribe
    \/ CallStartMarketStream
    \/ CallStopMarketStream
    \/ CallReturn
    \/ Join
    \/ ShutdownStopStrategy
    \/ ShutdownStopStream
    \/ ShutdownUnsubscribeSnapshot
    \/ \E t \in Streams : StreamLoop(t)
    \/ \E t \in Streams : StreamSymbol(t)
    \/ \E t \in Streams : StreamFetch(t)
    \/ \E t \in Streams : StreamPersist(t)
    \/ \E t \in Streams : StreamPublish(t)
    \/ \E t \in Streams : StreamHandler(t)
    \/ \E t \in Streams : StreamReturn(t)

SpecStream == Init /\ [][NextStream]_vars

\* ------------------------------------------------------------ price cache
\* price_cache = PriceCache(ttl_seconds=30, history_seconds=3600)
ttl_seconds == 30 * TimeUnitsPerSecond
history_seconds == 3600 * TimeUnitsPerSecond

\* the instants at which the clock of the price cache is observed: around the
\* start, the TTL and the history window
CacheInstants ==
    {0, 1, ttl_seconds - 1, ttl_seconds, ttl_seconds + 1,
     history_seconds - 1, history_seconds, history_seconds + 1}

\* everything but the price cache and the clock
nonCacheVars ==
    <<accounts, configs, objs, states, last_refresh, subscribed, hp, api, runners,
      jobScheduled, job, trig, published, served, pipeVars, brokerVars, snapshotVars,
      streamVars, wsVars, oracle>>

\* time passes between two operations on the cache
CacheTick ==
    /\ \E t \in CacheInstants : t > now /\ now' = t
    /\ UNCHANGED <<cacheVars, nonCacheVars>>

\* an entry that is still returned when its age has reached the TTL
cache_fresh_inclusive(current_time, timestamp) == current_time - timestamp <= ttl_seconds

\* "current_time - timestamp < self.ttl_seconds"
cache_fresh(current_time, timestamp) == current_time - timestamp < ttl_seconds

\* "while history_queue and history_queue[0][0] < cutoff: popleft()"
RECURSIVE prune(_, _)
prune(queue, cutoff) ==
    IF queue # <<>> /\ Head(queue).timestamp < cutoff
    THEN prune(Tail(queue), cutoff)
    ELSE queue

\* the result of an operation op on key k at the present instant
Returned(op, k, price, list) ==
    [op |-> op, key |-> k, at |-> now, price |-> price, list |-> list, n |-> cret.n + 1]

\* PriceCache.record, called with the timestamp of an event just stamped
CacheRecord ==
    /\ cret.n < MaxCacheOps
    /\ \E k \in CacheKeys, price \in PriceValues :
          /\ price_cache' = [price_cache EXCEPT ![k] = [price |-> price, timestamp |-> now]]
          /\ history' = [history EXCEPT ![k] =
                            prune(Append(@, [timestamp |-> now, price |-> price]),
                                  now - history_seconds)]
          /\ recorded' = [recorded EXCEPT ![k] =
                             @ \cup {[timestamp |-> now, price |-> price, n |-> cret.n + 1]}]
          /\ cret' = Returned("record", k, NoPrice, <<>>)
    /\ UNCHANGED <<now, nonCacheVars>>

\* PriceCache.get: no entry, a fresh entry, or an expired entry that is purged
CacheGet ==
    /\ cret.n < MaxCacheOps
    /\ \E k \in CacheKeys :
          IF price_cache[k] = NoPrice
          THEN /\ cret' = Returned("get", k, NoPrice, <<>>)
               /\ UNCHANGED price_cache
          ELSE IF cache_fresh(now, price_cache[k].timestamp)
          THEN /\ cret' = Returned("get", k, price_cache[k], <<>>)
               /\ UNCHANGED price_cache
          ELSE /\ cret' = Returned("get", k, NoPrice, <<>>)
               /\ price_cache' = [price_cache EXCEPT ![k] = NoPrice]
    /\ UNCHANGED <<now, history, recorded, nonCacheVars>>

\* PriceCache.clear_expired: the keys whose cache entry has expired lose the
\* entry and their whole history; every other history is pruned
CacheClearExpired ==
    /\ cret.n < MaxCacheOps
    /\ LET expired_keys == {k \in CacheKeys : /\ price_cache[k] # NoPrice
                                              /\ now - price_cache[k].timestamp
                                                     >= ttl_seconds}
       IN /\ price_cache' = [k \in CacheKeys |->
                                IF k \in expired_keys THEN NoPrice ELSE price_cache[k]]
          /\ history' = [k \in CacheKeys |->
                            IF k \in expired_keys THEN <<>>
                            ELSE prune(history[k], now - history_seconds)]
    /\ cret' = Returned("clear_expired", 0, NoPrice, <<>>)
    /\ UNCHANGED <<now, recorded, nonCacheVars>>

\* PriceCache.get_history: "return list(queue)"
CacheGetHistory ==
    /\ cret.n < MaxCacheOps
    /\ \E k \in CacheKeys : cret' = Returned("get_history", k, NoPrice, history[k])
    /\ UNCHANGED <<now, price_cache, history, recorded, nonCacheVars>>

NextCache ==
    \/ CacheTick
    \/ CacheRecord
    \/ CacheGet
    \/ CacheClearExpired
    \/ CacheGetHistory

SpecCache == Init /\ [][NextCache]_vars

\* ---------------------------------------------------- websocket connections
\* everything but the connection manager and the snapshot jobs
nonWsVars ==
    <<now, accounts, configs, objs, states, last_refresh, subscribed, hp, api, runners,
      jobScheduled, job, trig, published, served, pipeVars, brokerVars, snapshotVars,
      streamVars, cacheVars, oracle>>

\* scheduler.get_job(job_id) exists: nothing; else add_job
add_account_snapshot_job(jobs, account_id) == jobs \cup {account_id}

\* scheduler.remove_job(job_id), a missing job being logged only
remove_account_snapshot_job(jobs, account_id) == jobs \ {account_id}

\* ConnectionManager.register
WsRegister ==
    /\ ws_calls < MaxWsCalls
    /\ \E account_id \in WsAccounts, websocket \in WebSockets :
          /\ active_connections' =
                 [active_connections EXCEPT ![account_id] = @ \cup {websocket}]
          /\ connection_keys' = connection_keys \cup {account_id}
          /\ snapshot_jobs' = add_account_snapshot_job(snapshot_jobs, account_id)
    /\ ws_calls' = ws_calls + 1
    /\ UNCHANGED nonWsVars

\* ConnectionManager.unregister
WsUnregister ==
    /\ ws_calls < MaxWsCalls
    /\ \E account_id \in WsAccounts, websocket \in WebSockets :
          IF account_id \in connection_keys
          THEN LET left == active_connections[account_id] \ {websocket}
               IN /\ active_connections' = [active_connections EXCEPT ![account_id] = left]
                  /\ IF left = {}
                     THEN /\ connection_keys' = connection_keys \ {account_id}
                          /\ snapshot_jobs' =
                                 remove_account_snapshot_job(snapshot_jobs, account_id)
                     ELSE UNCHANGED <<connection_keys, snapshot_jobs>>
          ELSE UNCHANGED <<active_connections, connection_keys, snapshot_jobs>>
    /\ ws_calls' = ws_calls + 1
    /\ UNCHANGED nonWsVars

\* ConnectionManager.send_to_account: the sockets whose send_text raised are
\* discarded and an emptied entry is deleted
WsSendToAccount ==
    /\ ws_calls < MaxWsCalls
    /\ \E account_id \in WsAccounts :
          IF account_id \notin connection_keys
          THEN UNCHANGED <<active_connections, connection_keys>>
          ELSE \E connections_to_remove \in SUBSET active_connections[account_id] :
                  LET left == active_connections[account_id] \ connections_to_remove
                  IN /\ active_connections' =
                            [active_connections EXCEPT ![account_id] = left]
                     /\ connection_keys' =
                            IF connections_to_remove # {} /\ left = {}
                            THEN connection_keys \ {account_id}
                            ELSE connection_keys
    /\ ws_calls' = ws_calls + 1
    /\ UNCHANGED <<snapshot_jobs, nonWsVars>>

\* ConnectionManager.broadcast_to_all: the sockets that are closed or whose
\* send_text raised are discarded from their sets, the entries stay
WsBroadcastToAll ==
    /\ ws_calls < MaxWsCalls
    /\ \E closed \in SUBSET WebSockets :
          active_connections' =
              [account_id \in WsAccounts |-> active_connections[account_id] \ closed]
    /\ ws_calls' = ws_calls + 1
    /\ UNCHANGED <<connection_keys, snapshot_jobs, nonWsVars>>

\* the interval job of an account fires: the scheduler calls the coroutine
\* function _execute_account_snapshot; its body runs only if the coroutine is
\* awaited, and then removes the job of an account that is no key of
\* active_connections
WsSnapshotJob ==
    /\ ws_calls < MaxWsCalls
    /\ \E account_id \in snapshot_jobs, awaited \in BOOLEAN :
          snapshot_jobs' =
              IF awaited /\ account_id \notin connection_keys
              THEN remove_account_snapshot_job(snapshot_jobs, account_id)
              ELSE snapshot_jobs
    /\ ws_calls' = ws_calls + 1
    /\ UNCHANGED <<active_connections, connection_keys, nonWsVars>>

NextWs ==
    \/ WsRegister
    \/ WsUnregister
    \/ WsSendToAccount
    \/ WsBroadcastToAll
    \/ WsSnapshotJob

SpecWs == Init /\ [][NextWs]_vars

\* ------------------------------------------------ the request loop of the oracle
\* everything but the oracle thread
nonOracleVars ==
    <<now, accounts, configs, objs, states, last_refresh, subscribed, hp, api, runners,
      jobScheduled, job, trig, published, served, pipeVars, brokerVars, snapshotVars,
      streamVars, cacheVars, wsVars>>

\* "max_retries = 3"
max_retries == 3

\* requests.RequestException in place of a status code
RequestException == 0

\* response.status_code, or the exception requests.post raised
Statuses == {200, 201, 429, 500, RequestException}

\* a loop that tries again after every failure
after_response_retries_all(status, attempt) ==
    IF status = 200 THEN "success"
    ELSE IF attempt < max_retries - 1 THEN "retry"
    ELSE "next"

\* the body of "for attempt in range(max_retries)": 200 breaks with success; 429
\* and RequestException sleep and continue unless it was the last attempt; any
\* other status breaks
after_response(status, attempt) ==
    IF status = 200 THEN "success"
    ELSE IF status \in {429, RequestException} /\ attempt < max_retries - 1 THEN "retry"
    ELSE "next"

\* call_ai_for_decision reaches its loops with a non-empty list of endpoints
OracleCall ==
    /\ oracle.pc \in {"idle", "done"}
    /\ oracle.calls < MaxOracleCalls
    /\ \E n \in 1..NumEndpoints :
          oracle' = [pc |-> "request", calls |-> oracle.calls + 1, endpoints |-> n,
                     endpoint |-> 1, attempt |-> 0, sent |-> <<>>, success |-> FALSE]
    /\ UNCHANGED nonOracleVars

\* one requests.post and what the loops do with its outcome
OracleRequest ==
    /\ oracle.pc = "request"
    /\ \E status \in Statuses :
          LET sent == Append(oracle.sent, [endpoint |-> oracle.endpoint,
                                           attempt |-> oracle.attempt,
                                           status |-> status])
              after == after_response(status, oracle.attempt)
          IN oracle' =
                CASE after = "success" ->
                        [oracle EXCEPT !.pc = "done", !.sent = sent, !.success = TRUE]
                  [] after = "retry" ->
                        [oracle EXCEPT !.sent = sent, !.attempt = oracle.attempt + 1]
                  [] OTHER ->
                        IF oracle.endpoint < oracle.endpoints
                        THEN [oracle EXCEPT !.sent = sent, !.attempt = 0,
                                            !.endpoint = oracle.endpoint + 1]
                        ELSE [oracle EXCEPT !.pc = "done", !.sent = sent]
    /\ UNCHANGED nonOracleVars

NextOracle ==
    \/ OracleCall
    \/ OracleRequest

SpecOracle == Init /\ [][NextOracle]_vars

\* ------------------------------------------------------------------ claims
\* the decision tasks of account a: runner threads past "state.running = True"
DecisionTasks(a) ==
    {r \in BagToSet(runners) : objs[r.obj].account_id = a /\ r.pc # "start"}

\* how many of them there are
NumDecisionTasks(a) == BagCardinality([r \in DecisionTasks(a) |-> CopiesIn(r, runners)])

\* C1: at any instant at most one decision task of the trigger engine is in
\* flight per account, whatever the interleaving of price events, periodic and
\* forced refreshes and task completions.
C1_OneTaskPerAccount == \A a \in Accounts : NumDecisionTasks(a) <= 1

\* the executions of the decision pipeline for account a: the trigger-engine
\* tasks inside place_ai_driven_crypto_order and the scheduled job working on a
PipelineRunners(a) ==
    {r \in BagToSet(runners) : objs[r.obj].account_id = a /\ r.pc = "pipeline"}

JobOn(a) == job.pc = "account" /\ Head(job.queue) = a

NumPipelineExecutions(a) ==
    BagCardinality([r \in PipelineRunners(a) |-> CopiesIn(r, runners)])
        + (IF JobOn(a) THEN 1 ELSE 0)

\* C2: no two executions of the decision pipeline for the same account overlap,
\* whether a trigger-engine task or the scheduled auto-trading job started them.
C2_NoPipelineOverlap == \A a \in Accounts : NumPipelineExecutions(a) <= 1

\* the least event-time distance the mode of a trigger demands from the last one
MinSpacing(t) ==
    IF t.mode = "realtime" THEN MIN_REALTIME_INTERVAL
    ELSE IF t.mode = "interval" THEN t.interval_seconds * TimeUnitsPerSecond
    ELSE 0

\* C3: two consecutive triggers (starts of a decision task) of an account in
\* realtime mode are at least 1 s of event time apart, and in interval mode at
\* least interval_seconds, across task completions and strategy refreshes.
C3_MinTriggerSpacing ==
    [][\A a \in Accounts :
          (trig'[a].n = trig[a].n + 1 /\ trig[a].n > 0 /\ trig'[a].mode = trig[a].mode)
              => trig'[a].at - trig[a].at >= MinSpacing(trig'[a])]_vars

\* C5: no decision task is started or runs for an account while its effective
\* enabled flag is false.
C5_NoTaskWhileDisabled ==
    \A r \in BagToSet(runners) : r.pc = "pipeline" => objs[r.obj].enabled

\* C6: last_trigger_at of an account never moves backwards and is never cleared,
\* by no step, a strategy refresh reloading the persisted value included.
C6_LastTriggerMonotonic ==
    [][\A k \in 1..Len(objs) :
          objs[k].last_trigger_at # NoTime
              => objs'[k].last_trigger_at >= objs[k].last_trigger_at]_vars

C4_TriggerOnEveryNth ==
    \A a \in Accounts : trig[a].seq = trig[a].n * TickBatchSize

RequestsOf(n) == {i \in 1..Len(requests) : requests[i].id = n}

\* the DecisionLog rows of decision n
RowsOf(n) == {j \in 1..Len(logs) : logs[j].id = n}

\* C8: for one oracle decision at most one order-submission request is sent to
\* the exchange; a rejected, failed or timed-out submission is not sent again.
C8_AtMostOneSubmission == \A n \in 1..MaxDecisions : Cardinality(RequestsOf(n)) <= 1

\* a decision whose one submission the exchange did not accept is over
C8_Witness ==
    /\ px.pc = "done"
    /\ px.why = "sent"
    /\ ~px.executed
    /\ \E i \in RequestsOf(px.id) : ~requests[i].success

\* C9: once a decision is over, every order it sent to the exchange has a
\* DecisionLog row whose executed flag is the success the exchange reported, also
\* when writing the row fails.
C9_OrderHasLogRow ==
    px.pc = "done" =>
        \A i \in RequestsOf(px.id) :
            \E j \in RowsOf(px.id) : logs[j].executed = requests[i].success

\* the decision in hand is semantically invalid: an operation other than buy,
\* sell, hold, an unsupported symbol, or a portion that is no number in (0, 1]
Invalid(d) == d # NoDecision /\ validate_ai_decision(d) \in {"None", "raise"}

\* C10: an order is submitted only for a decision validated as buy or sell that
\* passed sizing, and a semantically invalid decision, insufficient cash or a
\* missing position ends with a DecisionLog row with executed = false and no
\* order-submission request.
C10_OrderOnlyWhenValidAndSized ==
    /\ px.pc # "idle" =>
          \A i \in RequestsOf(px.id) :
              /\ validate_ai_decision(px.decision) \in {"buy", "sell"}
              /\ requests[i].quantity > 0
    /\ (px.pc = "done"
           /\ (Invalid(px.decision) \/ px.why \in {"insufficient cash", "no position"}))
          => /\ RequestsOf(px.id) = {}
             /\ \E j \in RowsOf(px.id) : ~logs[j].executed

\* C11: every order-submission request has a quantity that is a whole multiple of
\* step_size and is worth at least min_notional at the reference price, and an
\* order rejected locally is not submitted.
C11_LotSizeAndNotional ==
    /\ \A i \in 1..Len(requests) :
          /\ requests[i].quantity > 0
          /\ requests[i].quantity % StepSize = 0
          /\ requests[i].quantity * requests[i].price >= MinNotional
    /\ (px.pc \in {"save", "done"} /\ px.why = "rejected locally")
          => RequestsOf(px.id) = {}

\* an order was sent with a quantity raised by one step over the floor of the
\* quantity asked for, the floor being worth less than min_notional
C11_Witness ==
    \E i \in RequestsOf(px.id) :
        /\ px.pc = "done"
        /\ px.quantity % StepSize # 0
        /\ ((px.quantity \div StepSize) * StepSize) * px.price < MinNotional
        /\ requests[i].quantity > px.quantity

\* C12: any two consecutive calls the process-wide rate limiter lets go are at
\* least the minimum interval (10 s) apart, for any number of threads.
C12_MinCallSpacing ==
    \A i \in 1..(Len(releases) - 1) :
        releases[i + 1] - releases[i] >= RATE_LIMIT_INTERVAL_SECONDS

\* C13: after a successful order submission or cancellation for an account,
\* GetBalanceAndPositions of that account never returns a result that was
\* cached before the order returned.
C13_NoStaleBalanceAfterOrder ==
    \A t \in BrokerThreads :
        bthreads[t].pc = "hit" => bthreads[t].got >= bthreads[t].after_done

\* C14: after a broker call for an account returned an error,
\* GetBalanceAndPositions of that account does not return a result that was
\* cached before the error.
C14_NoCachedResultAfterError ==
    \A t \in BrokerThreads :
        bthreads[t].pc = "hit" => bthreads[t].got >= bthreads[t].after_err

\* the oracle's reply is a hold, in any letter case
IsHold(d) == d # NoDecision /\ Lower(d.operation) = "hold"

\* C15: a HOLD decision ends with exactly one DecisionLog row, with executed =
\* true and no symbol, and with no order-submission request.
C15_HoldOneRowNoOrder ==
    (px.pc = "done" /\ IsHold(px.decision)) =>
        /\ Cardinality(RowsOf(px.id)) = 1
        /\ \A j \in RowsOf(px.id) : logs[j].executed /\ logs[j].symbol = NoSymbol
        /\ RequestsOf(px.id) = {}

\* C16: every DecisionLog row of a buy or sell with executed = true carries the
\* order id the exchange returned for the order of that decision.
C16_ExecutedRowHasOrderId ==
    \A j \in 1..Len(logs) :
        (logs[j].executed /\ logs[j].operation \in {"buy", "sell"}) =>
            \E i \in RequestsOf(logs[j].id) :
                requests[i].success /\ logs[j].order_id = requests[i].order_id

\* C17: an oracle invocation that produced a parseable reply ends with exactly
\* one DecisionLog row, and one that failed or could not be parsed with none.
C17_OneRowPerReply ==
    px.pc = "done" =>
        Cardinality(RowsOf(px.id)) = (IF px.decision = NoDecision THEN 0 ELSE 1)

\* a close of a supported symbol with a portion in (0, 1], in any letter case
WellFormedClose(d) ==
    /\ d # NoDecision
    /\ Lower(d.operation) = "close"
    /\ d.symbol \in SUPPORTED_SYMBOLS
    /\ ~d.target_portion_of_balance.text
    /\ d.target_portion_of_balance.tenths > 0
    /\ d.target_portion_of_balance.tenths <= PortionScale

\* C18: a well-formed close is accepted and sized as a market SELL of the
\* position, as a sell is: with a price and a position it is never ended as
\* invalid and it leaves the sizing with side SELL.
C18_CloseIsSell ==
    (px.pc \in {"save", "done"} /\ WellFormedClose(px.decision)) =>
        /\ px.why # "invalid"
        /\ px.why \in {"sent", "rejected locally", "no keys"} => px.side = "SELL"

\* C19: once a task whose oracle call returned a reply and whose decision was
\* saved has passed update_after_trigger, the in-memory last_trigger_at and the
\* persisted StrategyConfig.last_trigger_at both equal the event_time of the
\* price event that triggered the task.
C19_LastTriggerIsEventTime ==
    \A r \in BagToSet(runners) :
        (r.pc = "finally" /\ r.outcome = "saved") =>
            /\ objs[r.obj].last_trigger_at = r.event_time
            /\ configs[objs[r.obj].account_id].last_trigger_at = r.event_time

C30_FailedTaskKeepsLastTrigger ==
    [][\A r \in BagToSet(runners) :
          (r.pc = "update" /\ r.outcome # "saved" /\ runners' = SetRunner(r, "finally"))
              => /\ objs'[r.obj].last_trigger_at = objs[r.obj].last_trigger_at
                 /\ configs'[objs[r.obj].account_id].last_trigger_at
                       = configs[objs[r.obj].account_id].last_trigger_at]_vars

\* C21: when a handler raises during publish, the handlers after it in the
\* copy are still invoked and publish returns to the stream thread: the thread
\* is never ended by the exception, and at the return every handler of the copy
\* has been invoked.
C21_HandlerExceptionSwallowed ==
    \A t \in Streams :
        sthreads[t].raised # {} =>
            /\ sthreads[t].pc # "dead"
            /\ sthreads[t].pc = "return" => sthreads[t].invoked = sthreads[t].snapshot

\* the first of two handlers raised, the second was invoked, publish returned
C21_Witness ==
    \E t \in Streams :
        /\ sthreads[t].pc = "return"
        /\ Len(sthreads[t].snapshot) = 2
        /\ sthreads[t].snapshot[1] \in sthreads[t].raised
        /\ sthreads[t].invoked = sthreads[t].snapshot

\* C22: when publish returns it has invoked exactly the handlers that were
\* subscribed when it took its copy, each once, in the order of their
\* subscriptions.
C22_InvokedInSubscriptionOrder ==
    \A t \in Streams :
        sthreads[t].pc = "return" =>
            LET r == sthreads[t] IN
               /\ {r.invoked[j] : j \in 1..Len(r.invoked)}
                     = {h \in Handlers : r.snapshot_seq[h] > 0}
               /\ \A j, l \in 1..Len(r.invoked) :
                     j < l => r.snapshot_seq[r.invoked[j]] < r.snapshot_seq[r.invoked[l]]

\* a publish returned after invoking the strategy handler and then the snapshot
\* handler, which had been unsubscribed and subscribed again
C22_Witness ==
    \E t \in Streams :
        /\ sthreads[t].pc = "return"
        /\ sthreads[t].invoked = <<"strategy", "snapshot">>

\* C23: every handler is invoked with the events of a symbol in the order in
\* which the stream threads stamped them.
C23_IssuanceOrderPerSymbol ==
    \A h \in Handlers : \A j, l \in 1..Len(seen[h]) :
        (j < l /\ seen[h][j].symbol = seen[h][l].symbol) => seen[h][j].n < seen[h][l].n

C29_QuietAfterShutdown ==
    life.pc \in {"unsubscribe_snapshot", "down"} =>
        /\ tally.published = life.published
        /\ tally.tasks = life.tasks

\* the record of key k with the highest number: the last one recorded
LastRecorded(k) == CHOOSE e \in recorded[k] : \A f \in recorded[k] : f.n <= e.n

\* C25: get returns a price only if it is the last price recorded for the key
\* and was recorded less than 30 s ago; after a get of a key, and after a sweep,
\* the cache holds no entry of that key (of any key) whose age has reached 30 s.
C25_GetOnlyFresh ==
    /\ (cret.op = "get" /\ cret.price # NoPrice) =>
          /\ recorded[cret.key] # {}
          /\ cret.price.price = LastRecorded(cret.key).price
          /\ cret.at - LastRecorded(cret.key).timestamp < 30 * TimeUnitsPerSecond
    /\ (cret.op = "get" /\ cret.at = now /\ price_cache[cret.key] # NoPrice) =>
          now - price_cache[cret.key].timestamp < 30 * TimeUnitsPerSecond
    /\ (cret.op = "clear_expired" /\ cret.at = now) =>
          \A k \in CacheKeys :
              price_cache[k] # NoPrice =>
                  now - price_cache[k].timestamp < 30 * TimeUnitsPerSecond

\* a get that found an entry whose age had reached the TTL: nothing returned,
\* the entry removed
C25_Witness ==
    /\ cret.op = "get" /\ cret.at = now /\ cret.price = NoPrice
    /\ recorded[cret.key] # {}
    /\ now - LastRecorded(cret.key).timestamp = 30 * TimeUnitsPerSecond
    /\ price_cache[cret.key] = NoPrice
    /\ history[cret.key] # <<>>

\* C26: get_history never returns an entry older than the retention window of
\* one hour.
C26_HistoryWithinWindow ==
    (cret.op = "get_history" /\ cret.at = now) =>
        \A j \in 1..Len(cret.list) :
            now - cret.list[j].timestamp <= 3600 * TimeUnitsPerSecond

\* C27: every price recorded for a key within the last hour is in the history
\* of the key, and the history is in timestamp order.
C27_HistoryKeepsLastHour ==
    \A k \in CacheKeys :
        /\ \A e \in recorded[k] :
              now - e.timestamp < 3600 * TimeUnitsPerSecond =>
                  \E j \in 1..Len(history[k]) :
                      /\ history[k][j].timestamp = e.timestamp
                      /\ history[k][j].price = e.price
        /\ \A j, l \in 1..Len(history[k]) :
              j < l => history[k][j].timestamp <= history[k][l].timestamp

\* C28: a snapshot job is scheduled for an account exactly when the account has
\* at least one subscribed websocket.
C28_JobIffSubscribers ==
    \A account_id \in WsAccounts :
        account_id \in snapshot_jobs <=> active_connections[account_id] # {}

\* C31: a step never gives an account that stays active another StrategyState
\* object than the one it had, and the loop of a refresh (at start, forced or
\* periodic) changes neither running nor tick_counter nor the owner of any
\* object; an account with a task in flight has no other object installed.
C31_RefreshKeepsStateObject ==
    [][/\ \A a \in Accounts :
             (states[a] # 0 /\ accounts'[a].status = "active") => states'[a] = states[a]
       /\ ((api.pc = "idle" /\ api'.pc = "commit")
              \/ (hp.pc = "idle" /\ hp'.pc = "commit")
              \/ (~subscribed /\ subscribed')) =>
             \A k \in 1..Len(objs) :
                 /\ objs'[k].running = objs[k].running
                 /\ objs'[k].tick_counter = objs[k].tick_counter
                 /\ objs'[k].account_id = objs[k].account_id
       /\ \A r \in BagToSet(runners') :
             r.pc \in {"pipeline", "update", "finally"} =>
                 states'[objs'[r.obj].account_id] \in {0, r.obj}]_vars

\* the tasks executing on the StrategyState object k
TasksOn(k) == {r \in BagToSet(runners) : r.obj = k /\ r.pc \in {"pipeline", "update", "finally"}}

C33_SlowOracleBlocksNobody ==
    /\ <>(published = MaxEvents /\ hp.pc = "idle")
    /\ <>(/\ trig[2].n >= 1
          /\ ~objs[states[2]].running
          /\ \A r \in BagToSet(runners) : objs[r.obj].account_id # 2)

\* the task of account 1 is still in its pipeline, started by the first event,
\* while the last event has been handled and a task of account 2 has ended
C33_Witness ==
    /\ \E r \in BagToSet(runners) :
          objs[r.obj].account_id = 1 /\ r.pc = "pipeline" /\ trig[1].seq = 1
    /\ published = MaxEvents /\ hp.pc = "idle"
    /\ trig[2].n >= 1
    /\ ~objs[states[2]].running
    /\ \A r \in BagToSet(runners) : objs[r.obj].account_id # 2

C35_SubmittedAtMostRequested ==
    \A j \in 1..Len(requests) :
        requests[j].id = px.id => requests[j].quantity <= px.quantity

\* C36: once the verification of an executed trade has run, whatever it found,
\* the pipeline is at or past save_ai_decision with executed = true, and every
\* row logged for the decision has executed = true.
C36_VerificationKeepsOutcome ==
    px.pc # "idle" /\ px.verification # "none" =>
        /\ px.executed
        /\ px.pc \in {"save", "done"}
        /\ \A j \in 1..Len(logs) : logs[j].id = px.id => logs[j].executed

\* the refetch of the positions failed, and the decision is logged as executed
C36_Witness ==
    /\ px.pc = "done" /\ px.verification = "error"
    /\ \E j \in 1..Len(logs) : logs[j].id = px.id /\ logs[j].executed

\* C37: when the verification of an executed trade starts, the row of the
\* decision with executed = true is in the log.
C37_LoggedBeforeVerification ==
    px.pc = "verify" => \E j \in 1..Len(logs) : logs[j].id = px.id /\ logs[j].executed

\* C38: a run of the snapshot handler whose write of the snapshot rows failed
\* has rolled the session back, left the asset-curve cache and the table alone and
\* returned to the bus, ready for the next event.
C38_PersistFailureContained ==
    snap.failed =>
        /\ snap.rolled_back
        /\ ~snap.invalidated
        /\ ~snap.wrote
        /\ snap.pc = "idle"
        /\ \A row \in snapshots : row.id # snap.runs

\* after a run whose write failed, a later event was handled and its rows written
C38_Witness ==
    /\ snap.after_failure
    /\ snap.pc = "idle" /\ snap.wrote /\ snap.invalidated
    /\ \E row \in snapshots : row.id = snap.runs

\* C39: in one call of the oracle, no endpoint gets more than 3 requests; a
\* request follows another to the same endpoint only after a 429 or a transport
\* error; any other response but 200 is followed, if at all, by a request to the
\* next endpoint; no request follows a 200; and there are at most 3 requests
\* per endpoint in total.
C39_BoundedOracleRequests ==
    LET sent == oracle.sent IN
       /\ \A e \in 1..NumEndpoints :
             Cardinality({j \in 1..Len(sent) : sent[j].endpoint = e}) <= 3
       /\ \A j \in 1..(Len(sent) - 1) :
             /\ sent[j].status # 200
             /\ sent[j + 1].endpoint = sent[j].endpoint =>
                   sent[j].status \in {429, RequestException}
             /\ sent[j].status \notin {200, 429, RequestException} =>
                   sent[j + 1].endpoint = sent[j].endpoint + 1
             /\ sent[j + 1].endpoint \in {sent[j].endpoint, sent[j].endpoint + 1}
       /\ Len(sent) <= 3 * oracle.endpoints
       /\ (oracle.pc = "done" /\ oracle.success) => sent[Len(sent)].status = 200
       /\ (oracle.pc = "done" /\ ~oracle.success) =>
             /\ sent[Len(sent)].endpoint = oracle.endpoints
             /\ \A j \in 1..Len(sent) : sent[j].status # 200

\* a call that used all its attempts: three rate-limited or broken requests to
\* each of two endpoints, and no reply
C39_Witness ==
    /\ oracle.pc = "done" /\ ~oracle.success
    /\ oracle.endpoints = 2
    /\ Len(oracle.sent) = 6
    /\ \E j \in 1..6 : oracle.sent[j].status = 429
    /\ \E j \in 1..6 : oracle.sent[j].status = RequestException

\* C40: a strategy update that selects another trigger_mode leaves the stored
\* interval_seconds and tick_batch_size of the fields it does not select as
\* they were: whenever the row of an account is rewritten, a column changes
\* only if the new trigger_mode selects it.
C40_UnselectedFieldsRetained ==
    [][\A a \in Accounts :
          (configs[a].exists /\ configs'[a] # configs[a]) =>
             /\ configs'[a].trigger_mode # "interval" =>
                   configs'[a].interval_seconds = configs[a].interval_seconds
             /\ configs'[a].trigger_mode # "tick_batch" =>
                   configs'[a].tick_batch_size = configs[a].tick_batch_size]_vars

====
